---- MODULE Spec2Model ----
(***************************************************************************)
(* Model of the record-reconciliation classes of                           *)
(* NeuraGuide/data_validation_pipeline.py (DuplicateHandler,               *)
(* MissingDataHandler, URLValidator, YearValidator, NumericValidator,      *)
(* DescriptionValidator) and of DataCleaningPipeline of                    *)
(* NeuraGuide/data_cleaning_pipeline.py, operating on a pandas DataFrame.  *)
(*                                                                         *)
(* A cell value is a record [kind, n, s]:                                  *)
(*   kind = "missing"  NaN / None                                          *)
(*   kind = "int"      a Python/numpy integer, n = 10 * value              *)
(*   kind = "float"    a finite float, n = value in tenths                 *)
(*   kind = "inf"      float('inf')                                        *)
(*   kind = "str"      a str, s = its characters (a label the code only    *)
(*                     compares as a whole is kept as one chunk)           *)
(*   kind = "bool"     True / False, n = 10 / 0                            *)
(* Numbers are kept in tenths so that one fractional digit (4.5, 2020.7)   *)
(* is exact.  A DataFrame is a sequence of entries [idx, rec]: idx is the  *)
(* index label, rec maps each column name to its cell.                     *)
(***************************************************************************)
EXTENDS Integers, Sequences, FiniteSets, TLC

VARIABLES
    loaded,     \* the table load_data returned, before any stage
    obj,        \* the class of the handler or validator in use
    df,         \* its self.df
    call,       \* the method called on it last ("none" before any)
    ret,        \* what that call returned, or that it raised
    pass,       \* how many times a handler was re-created on an output, or
                \* how many stages a pipeline has run
    validators, \* the third-party `validators` package, if importable
    cleaning_report, \* DataCleaningPipeline.cleaning_report: metric -> count
    df_is_none, \* DataCleaningPipeline: self.df is None (no table loaded)
    futures,    \* check_reachability: the futures submitted to the executor
    reachability, \* check_reachability: the dict url -> outcome
    pc,         \* check_reachability: where the calling thread stands
    max_workers, \* check_reachability: the size of the thread pool
    output,     \* the file a save operation writes
    dtypes,     \* DataCleaningPipeline: self.df.dtypes, column by column
    tools_data  \* AIToolsDataCleaner.tools_data: the list of tool dicts

\* The state of a check_reachability run.
probe_vars == <<futures, reachability, pc, max_workers>>

vars == <<loaded, obj, df, call, ret, pass, validators, cleaning_report, df_is_none,
          probe_vars, output, dtypes, tools_data>>

\* Largest number of rows of an input table.
MaxRows == 3
\* Largest number of times a handler is re-created on its own output.
MaxPasses == 1

--------------------------------------------------------------------------
(* Cell values *)

NaN == [kind |-> "missing", n |-> 0, s |-> <<>>]
IntV(k) == [kind |-> "int", n |-> 10 * k, s |-> <<>>]
FloatV(tenths) == [kind |-> "float", n |-> tenths, s |-> <<>>]
Inf == [kind |-> "inf", n |-> 0, s |-> <<>>]
StrV(chars) == [kind |-> "str", n |-> 0, s |-> chars]
BoolV(b) == [kind |-> "bool", n |-> IF b THEN 10 ELSE 0, s |-> <<>>]

\* Python's None kept in an object column: missing like NaN, but the column
\* that holds it has dtype object.
NoneV == [kind |-> "missing", n |-> 0, s |-> <<"None">>]

isna(v) == v.kind = "missing"
notna(v) == ~isna(v)
fillna(v, k) == IF isna(v) THEN IntV(k) ELSE v

Columns == {"Tool Name", "Company", "Website", "review_count",
            "average_rating", "Launch Year"}

--------------------------------------------------------------------------
(* DataFrame helpers *)

\* A fresh positional index 0..n-1 over a sequence of rows (read_csv,
\* reset_index(drop=True)).
RangeIndex(rows) == [i \in 1..Len(rows) |-> [idx |-> i - 1, rec |-> rows[i]]]

\* The table whose k-th entry is f(k, t[k]): a column-wise or row-wise
\* operation that keeps every row.
MapRows(t, f(_, _)) ==
    LET F[k \in 0..Len(t)] ==
            IF k = 0 THEN <<>> ELSE Append(F[k - 1], f(k, t[k]))
    IN F[Len(t)]

reset_index(t) == MapRows(t, LAMBDA k, e : [idx |-> k - 1, rec |-> e.rec])

\* df[mask]: the entries at the positions in S, in table order.
Mask(t, S) ==
    LET F[k \in 0..Len(t)] ==
            IF k = 0 THEN <<>>
            ELSE IF k \in S THEN Append(F[k - 1], t[k]) ELSE F[k - 1]
    IN F[Len(t)]

Index(t) == {t[i].idx : i \in DOMAIN t}

\* df.index.isin(labels) as the set of positions it selects.
isin(t, labels) == {i \in DOMAIN t : t[i].idx \in labels}

\* results[name] = ...: the row with the columns of extra added or replaced.
assign(rec, extra) == extra @@ rec

\* DataFrame.drop(columns=cols)
drop(t, cols) ==
    MapRows(t, LAMBDA k, e :
        [idx |-> e.idx, rec |-> [c \in DOMAIN e.rec \ cols |-> e.rec[c]]])

EmptyFrame == <<>>

SeqsUpTo(S, n) == UNION {[1..k -> S] : k \in 0..n}

NoRet == [status |-> "none"]

\* A method call: its name and, where it takes one, its strategy argument.
Call(name, strategy) == [name |-> name, strategy |-> strategy]
NoCall == Call("none", "")

\* `import validators` raises ImportError.
NotInstalled == [installed |-> FALSE, accepts |-> {}]

\* self.cleaning_report = {}
NoReport == <<>>

\* No check_reachability run has started.
NoProbes ==
    /\ futures = <<>>
    /\ reachability = <<>>
    /\ pc = "idle"
    /\ max_workers = 0

\* The output file before anything is written to it.
NoOutput == [exists |-> FALSE, data |-> <<>>, error |-> "none"]

--------------------------------------------------------------------------
(* DuplicateHandler *)

duplicate_keys == <<"Tool Name", "Company", "Website">>

KeyOf(rec) == [k \in DOMAIN duplicate_keys |-> rec[duplicate_keys[k]]]

\* Flags a row only when a neighbouring row carries the same key.
duplicated_adjacent(t) ==
    {i \in DOMAIN t :
        \E j \in DOMAIN t :
            (j = i - 1 \/ j = i + 1) /\ KeyOf(t[j].rec) = KeyOf(t[i].rec)}

\* df.duplicated(subset=keys, keep=False): missing compares equal to missing.
duplicated(t) ==
    {i \in DOMAIN t :
        \E j \in DOMAIN t : j # i /\ KeyOf(t[j].rec) = KeyOf(t[i].rec)}

find_duplicates(t) == Mask(t, duplicated(t))

\* groupby(keys, dropna=True) would discard every key that has a missing part.
GroupKeysDropna(dupes) ==
    {k \in {KeyOf(dupes[i].rec) : i \in DOMAIN dupes} :
        \A j \in DOMAIN k : notna(k[j])}

\* The group keys of dupes.groupby(duplicate_keys, dropna=False).
GroupKeys(dupes) == {KeyOf(dupes[i].rec) : i \in DOMAIN dupes}

Group(dupes, key) ==
    Mask(dupes, {i \in DOMAIN dupes : KeyOf(dupes[i].rec) = key})

\* Row sum of the scores frame for the member at position p of the group,
\* in tenths.
RowScore(group, p) ==
    LET rec == group[p].rec
        completeness == Cardinality({c \in Columns : notna(rec[c])})
        reviews == fillna(rec["review_count"], 0).n
        rating == fillna(rec["average_rating"], 0).n
        recency == fillna(rec["Launch Year"], 0).n
        position == -(p - 1)
    IN 10 * completeness + reviews + rating + recency + 10 * position

\* idxmax of the last maximal row instead of the first.
rank_records_last(group) ==
    LET best == CHOOSE p \in DOMAIN group :
                    /\ \A q \in DOMAIN group : RowScore(group, q) <= RowScore(group, p)
                    /\ \A q \in DOMAIN group :
                          RowScore(group, q) = RowScore(group, p) => q <= p
    IN group[best].idx

\* scores.sum(axis=1).idxmax(): the label of the first row of maximal sum.
rank_records(group) ==
    LET best == CHOOSE p \in DOMAIN group :
                    /\ \A q \in DOMAIN group : RowScore(group, q) <= RowScore(group, p)
                    /\ \A q \in DOMAIN group :
                          RowScore(group, q) = RowScore(group, p) => p <= q
    IN group[best].idx

\* '&' written where line 71 has '|'.
cleaned_mask_and(t, dupes, keep_indices) ==
    (DOMAIN t \ isin(t, Index(dupes))) \cap isin(t, keep_indices)

\* ~self.df.index.isin(dupes.index) | self.df.index.isin(keep_indices)
cleaned_mask(t, dupes, keep_indices) ==
    (DOMAIN t \ isin(t, Index(dupes))) \cup isin(t, keep_indices)

\* self.df.index.isin(dupes.index) & ~self.df.index.isin(keep_indices)
removed_mask(t, dupes, keep_indices) ==
    isin(t, Index(dupes)) \ isin(t, keep_indices)

remove_duplicates(t) ==
    LET dupes == find_duplicates(t) IN
    IF dupes = EmptyFrame
    THEN [status |-> "returned", cleaned |-> t, rejected |-> EmptyFrame]
    ELSE LET keep_indices ==
                 {rank_records(Group(dupes, k)) : k \in GroupKeys(dupes)}
             removed == Mask(t, removed_mask(t, dupes, keep_indices))
             cleaned == Mask(t, cleaned_mask(t, dupes, keep_indices))
         IN [status |-> "returned",
             cleaned |-> reset_index(cleaned),
             rejected |-> removed]

--------------------------------------------------------------------------
(* Inputs of the duplicate-resolution runs *)

NameA == StrV(<<"A">>)
CoX == StrV(<<"X">>)
SiteA == StrV(<<"a", ".", "i", "o">>)

DupKeyChoices == {<<NaN, NaN, NaN>>, <<NameA, CoX, NaN>>, <<NameA, CoX, SiteA>>}

DupRows ==
    {[c \in Columns |->
        CASE c = "Tool Name" -> k[1]
          [] c = "Company" -> k[2]
          [] c = "Website" -> k[3]
          [] c = "review_count" -> rv
          [] c = "average_rating" -> rt
          [] c = "Launch Year" -> IntV(2020)] :
        k \in DupKeyChoices, rv \in {NaN, IntV(0), IntV(1)},
        rt \in {NaN, FloatV(5)}}

InitDup ==
    /\ loaded \in {RangeIndex(rows) : rows \in SeqsUpTo(DupRows, MaxRows)}
    /\ obj = "DuplicateHandler"
    /\ df = loaded
    /\ call = NoCall
    /\ ret = NoRet
    /\ pass = 0
    /\ NoProbes
    /\ output = NoOutput
    /\ tools_data = <<>>
    /\ dtypes = <<>>
    /\ validators = NotInstalled
    /\ cleaning_report = NoReport
    /\ df_is_none = FALSE

\* handler.remove_duplicates()
DH_remove_duplicates ==
    /\ obj = "DuplicateHandler"
    /\ call = NoCall
    /\ call' = Call("remove_duplicates", "")
    /\ ret' = remove_duplicates(df)
    /\ UNCHANGED <<loaded, obj, df, pass, validators, cleaning_report, df_is_none, probe_vars, output, dtypes, tools_data>>

\* DuplicateHandler(cleaned_df): a new handler on the table the last call
\* returned.
DH_rerun ==
    /\ obj = "DuplicateHandler"
    /\ call.name = "remove_duplicates"
    /\ ret.status = "returned"
    /\ pass < MaxPasses
    /\ df' = ret.cleaned
    /\ call' = NoCall
    /\ ret' = NoRet
    /\ pass' = pass + 1
    /\ UNCHANGED <<loaded, obj, validators, cleaning_report, df_is_none, probe_vars, output, dtypes, tools_data>>

NextDup == DH_remove_duplicates \/ DH_rerun

SpecDup == InitDup /\ [][NextDup]_vars

--------------------------------------------------------------------------
(* Properties of duplicate resolution *)

Returned(name) == call.name = name /\ ret.status = "returned"

\* Positions of df whose index label is not among the removed records.
KeptPositions == {i \in DOMAIN df : df[i].idx \notin Index(ret.rejected)}

\* Positions of df that carry the same identity key as position i.
SameKey(i) == {j \in DOMAIN df : KeyOf(df[j].rec) = KeyOf(df[i].rec)}

AllKeyMissing(rec) == \A k \in DOMAIN duplicate_keys : isna(rec[duplicate_keys[k]])

\* C1: remove_duplicates splits the table exactly: cleaned is the kept rows
\* in their original relative order, one per identity-key group; removed is
\* every other row; the two lengths add up to the input's.
C1_ExactSplit ==
    Returned("remove_duplicates") =>
        /\ ret.cleaned = reset_index(Mask(df, KeptPositions))
        /\ ret.rejected = Mask(df, DOMAIN df \ KeptPositions)
        /\ \A i \in DOMAIN df : Cardinality(SameKey(i) \cap KeptPositions) = 1
        /\ Len(ret.cleaned) + Len(ret.rejected) = Len(df)

\* C1 witness: a run that removed a record and kept records of two groups.
C1_Witness ==
    /\ Returned("remove_duplicates")
    /\ pass = 0
    /\ NoProbes
    /\ output = NoOutput
    /\ dtypes = <<>>
    /\ Len(ret.rejected) >= 1
    /\ \E i, j \in KeptPositions : KeyOf(df[i].rec) # KeyOf(df[j].rec)

\* The composite score as the claim words it, in tenths: non-missing field
\* count + review_count + average_rating + Launch Year (missing as 0) minus
\* the 0-based position of the record inside its group.
ClaimScore(i) ==
    LET rec == df[i].rec
        zero(v) == IF v.kind = "missing" THEN 0 ELSE v.n
        before == Cardinality({j \in SameKey(i) : j < i})
    IN 10 * Cardinality({c \in Columns : rec[c].kind # "missing"})
         + zero(rec["review_count"]) + zero(rec["average_rating"])
         + zero(rec["Launch Year"]) - 10 * before

\* C2: in every group of two or more the retained record scores at least as
\* high as every other member, and among the members of maximal score it is
\* the one of lowest original index.
C2_BestRetained ==
    Returned("remove_duplicates") =>
        \A i \in KeptPositions :
            \A j \in SameKey(i) :
                /\ ClaimScore(i) >= ClaimScore(j)
                /\ ClaimScore(i) = ClaimScore(j) => df[i].idx <= df[j].idx

\* C2 witness: a group in which a later member ties with the retained one.
C2_Witness ==
    /\ Returned("remove_duplicates")
    /\ \E i \in KeptPositions :
          \E j \in SameKey(i) : j > i /\ ClaimScore(i) = ClaimScore(j)

\* C3: a second remove_duplicates, run on the cleaned table of a first one,
\* removes nothing and returns that table unchanged, the table holding no two
\* records of equal identity key.
C3_Idempotent ==
    (pass >= 1 /\ Returned("remove_duplicates")) =>
        /\ ret.rejected = EmptyFrame
        /\ ret.cleaned = df
        /\ \A i, j \in DOMAIN df :
              KeyOf(df[i].rec) = KeyOf(df[j].rec) => i = j

\* C3 witness: the second run, after a first run that removed records and
\* left at least two.
C3_Witness ==
    /\ pass = 1
    /\ Returned("remove_duplicates")
    /\ Len(df) < Len(loaded)
    /\ Len(df) >= 2

\* C4 as claimed: a record whose key fields are all missing is never removed.
C4_NeverRemoved ==
    Returned("remove_duplicates") =>
        \A k \in DOMAIN ret.rejected : ~AllKeyMissing(ret.rejected[k].rec)

\* C4 as amended: the records whose key fields are all missing form one
\* group (missing equals missing); exactly one of them is retained, so such
\* a record is safe from removal only when it is the only one of its kind.
C4_MissingKeysOneGroup ==
    Returned("remove_duplicates") =>
        LET M == {i \in DOMAIN df : AllKeyMissing(df[i].rec)} IN
        M # {} => Cardinality(M \cap KeptPositions) = 1

\* C4 witness: two records with all key fields missing, one of them removed.
C4_Witness ==
    /\ Returned("remove_duplicates")
    /\ Cardinality({i \in DOMAIN df : AllKeyMissing(df[i].rec)}) >= 2
    /\ \E k \in DOMAIN ret.rejected : AllKeyMissing(ret.rejected[k].rec)

--------------------------------------------------------------------------
(* Strings and the regular expressions of URLValidator *)

Whitespace == {" ", "\t", "\n"}
Digits == {"0", "1", "2", "3", "4", "5", "6", "7", "8", "9"}
LowerSeq == <<"a", "b", "c", "d", "e", "f", "g", "h", "i", "j", "k", "l", "m",
              "n", "o", "p", "q", "r", "s", "t", "u", "v", "w", "x", "y", "z">>
UpperSeq == <<"A", "B", "C", "D", "E", "F", "G", "H", "I", "J", "K", "L", "M",
              "N", "O", "P", "Q", "R", "S", "T", "U", "V", "W", "X", "Y", "Z">>
Letters == {LowerSeq[i] : i \in DOMAIN LowerSeq} \cup {UpperSeq[i] : i \in DOMAIN UpperSeq}

\* re.IGNORECASE / str.lower() on one character.
lower(c) ==
    IF \E i \in DOMAIN UpperSeq : UpperSeq[i] = c
    THEN LowerSeq[CHOOSE i \in DOMAIN UpperSeq : UpperSeq[i] = c]
    ELSE c

lower_str(cs) == [i \in DOMAIN cs |-> lower(cs[i])]

\* str.strip()
strip(cs) ==
    LET inner == {i \in DOMAIN cs : cs[i] \notin Whitespace} IN
    IF inner = {} THEN <<>>
    ELSE LET lo == CHOOSE i \in inner : \A j \in inner : i <= j
             hi == CHOOSE i \in inner : \A j \in inner : j <= i
         IN SubSeq(cs, lo, hi)

startswith(cs, prefix) ==
    Len(cs) >= Len(prefix) /\ SubSeq(cs, 1, Len(prefix)) = prefix

HttpPrefix == <<"h", "t", "t", "p", ":", "/", "/">>
HttpsPrefix == <<"h", "t", "t", "p", "s", ":", "/", "/">>

\* Length of the match of r'^https?://' (re.IGNORECASE), 0 when none.
SchemeLen(cs) ==
    IF startswith(lower_str(cs), HttpsPrefix) THEN Len(HttpsPrefix)
    ELSE IF startswith(lower_str(cs), HttpPrefix) THEN Len(HttpPrefix)
    ELSE 0

\* if not re.match(r'^https?://', url): url = 'http://' + url
with_scheme(cs) == IF SchemeLen(cs) = 0 THEN HttpPrefix \o cs ELSE cs

\* The parts of cs between the "." characters.
RECURSIVE split_dots(_)
split_dots(cs) ==
    IF \A i \in DOMAIN cs : cs[i] # "."
    THEN <<cs>>
    ELSE LET d == CHOOSE i \in DOMAIN cs :
                      cs[i] = "." /\ \A j \in 1..(i - 1) : cs[j] # "."
         IN <<SubSeq(cs, 1, d - 1)>> \o split_dots(SubSeq(cs, d + 1, Len(cs)))

AllIn(cs, S) == \A i \in DOMAIN cs : cs[i] \in S

\* [A-Z0-9](?:[A-Z0-9-]{0,61}[A-Z0-9])?
LabelOK(l) ==
    /\ Len(l) >= 1 /\ Len(l) <= 63
    /\ AllIn(l, Letters \cup Digits \cup {"-"})
    /\ l[1] # "-" /\ l[Len(l)] # "-"

\* (?:label\.)+[A-Z]{2,6}\.?
DomainOK(host) ==
    LET raw == split_dots(host)
        parts == IF Len(raw) >= 2 /\ raw[Len(raw)] = <<>>
                 THEN SubSeq(raw, 1, Len(raw) - 1) ELSE raw
    IN /\ Len(parts) >= 2
       /\ \A i \in 1..(Len(parts) - 1) : LabelOK(parts[i])
       /\ LET tld == parts[Len(parts)]
          IN Len(tld) >= 2 /\ Len(tld) <= 6 /\ AllIn(tld, Letters)

\* \d{1,3}\.\d{1,3}\.\d{1,3}\.\d{1,3}
IPv4OK(host) ==
    LET parts == split_dots(host) IN
    /\ Len(parts) = 4
    /\ \A i \in 1..4 :
          Len(parts[i]) >= 1 /\ Len(parts[i]) <= 3 /\ AllIn(parts[i], Digits)

HostOK(host) ==
    \/ DomainOK(host)
    \/ lower_str(host) = <<"l", "o", "c", "a", "l", "h", "o", "s", "t">>
    \/ IPv4OK(host)

\* (?::\d+)?(?:/?|[/?]\S+)$ on what follows the host.
TailOK(tail) ==
    LET digitsEnd ==
            IF tail # <<>> /\ tail[1] = ":"
            THEN CHOOSE e \in 1..Len(tail) :
                     /\ \A j \in 2..e : tail[j] \in Digits
                     /\ (e = Len(tail) \/ tail[e + 1] \notin Digits)
            ELSE 0
        \* the port group matches only with at least one digit
        path == IF digitsEnd >= 2 THEN SubSeq(tail, digitsEnd + 1, Len(tail)) ELSE tail
    IN \/ path = <<>>
       \/ path = <<"/">>
       \/ /\ Len(path) >= 2
          /\ path[1] \in {"/", "?"}
          /\ \A j \in 2..Len(path) : path[j] \notin Whitespace

\* The fallback pattern of is_valid_url, matched against the whole string.
PatternMatch(cs) ==
    LET n == SchemeLen(cs)
        rest == SubSeq(cs, n + 1, Len(cs))
        stops == {i \in DOMAIN rest : rest[i] \in {":", "/", "?"}}
        hostEnd == IF stops = {} THEN Len(rest)
                   ELSE (CHOOSE i \in stops : \A j \in stops : i <= j) - 1
    IN /\ n > 0
       /\ HostOK(SubSeq(rest, 1, hostEnd))
       /\ TailOK(SubSeq(rest, hostEnd + 1, Len(rest)))

--------------------------------------------------------------------------
(* URLValidator *)

url_column == "Website"

\* is_valid_url(url) under the `validators` package v: when it is importable
\* the verdict is validators.url's (a function of the normalised string that
\* this repository does not define), else the fallback pattern's.
is_valid_url(v, url) ==
    IF isna(url) \/ url.kind # "str" THEN FALSE
    ELSE LET normal == with_scheme(strip(url.s)) IN
         IF v.installed THEN normal \in v.accepts ELSE PatternMatch(normal)

validate_urls(v, t) ==
    MapRows(t, LAMBDA k, e :
        [idx |-> e.idx,
         rec |-> assign(e.rec,
                    [url_valid |-> BoolV(is_valid_url(v, e.rec[url_column])),
                     url_missing |-> BoolV(isna(e.rec[url_column]))])])

truth(cell) == cell = BoolV(TRUE)

\* The invalid mask without its '& ~url_missing' part.
invalid_url_mask_valid_only(validated) ==
    {i \in DOMAIN validated : ~truth(validated[i].rec.url_valid)}

\* ~validated['url_valid'] & ~validated['url_missing']
invalid_url_mask(validated) ==
    {i \in DOMAIN validated :
        ~truth(validated[i].rec.url_valid) /\ ~truth(validated[i].rec.url_missing)}

\* validated['url_valid'] | validated['url_missing']
kept_url_mask(validated) ==
    {i \in DOMAIN validated :
        truth(validated[i].rec.url_valid) \/ truth(validated[i].rec.url_missing)}

clean_urls(v, t) ==
    LET validated == validate_urls(v, t)
        cleaned == Mask(validated, kept_url_mask(validated))
        invalid == Mask(validated, invalid_url_mask(validated))
    IN [status |-> "returned",
        cleaned |-> reset_index(drop(cleaned, {"url_valid", "url_missing"})),
        rejected |-> invalid]

--------------------------------------------------------------------------
(* Inputs of the URL runs *)

UrlPlain == <<"a", ".", "i", "o">>
UrlPadded == <<" ", "h", "t", "t", "p", "s", ":", "/", "/", "a", ".", "i", "o", "/", "x", " ">>
UrlLocal == <<"H", "T", "T", "P", ":", "/", "/", "l", "o", "c", "a", "l", "h", "o", "s", "t", ":", "8", "0">>
UrlSpace == <<"a", " ", "b">>
UrlBareQuery == <<"1", ".", "2", ".", "3", ".", "4", "?">>

\* The strings stored in the input tables.
UrlStrings == {UrlPlain, UrlPadded, UrlSpace}

UrlCells == {NaN, IntV(7)} \cup {StrV(cs) : cs \in UrlStrings}

UrlRows ==
    {[c \in Columns |->
        CASE c = "Tool Name" -> NameA
          [] c = "Company" -> CoX
          [] c = "Website" -> u
          [] c = "review_count" -> IntV(1)
          [] c = "average_rating" -> FloatV(45)
          [] c = "Launch Year" -> IntV(2020)] : u \in UrlCells}

\* What validators.url may answer on the normalised input strings.
ValidatorsChoices ==
    {NotInstalled} \cup
    {[installed |-> TRUE, accepts |-> A] :
        A \in SUBSET {with_scheme(strip(cs)) : cs \in UrlStrings}}

InitUrl ==
    /\ loaded \in {RangeIndex(rows) : rows \in SeqsUpTo(UrlRows, MaxRows)}
    /\ obj = "URLValidator"
    /\ df = loaded
    /\ call = NoCall
    /\ ret = NoRet
    /\ pass = 0
    /\ NoProbes
    /\ output = NoOutput
    /\ tools_data = <<>>
    /\ dtypes = <<>>
    /\ validators \in ValidatorsChoices
    /\ cleaning_report = NoReport
    /\ df_is_none = FALSE

\* validator.validate_urls()
UV_validate_urls ==
    /\ obj = "URLValidator"
    /\ call = NoCall
    /\ call' = Call("validate_urls", "")
    /\ ret' = [status |-> "returned", results |-> validate_urls(validators, df)]
    /\ UNCHANGED <<loaded, obj, df, pass, validators, cleaning_report, df_is_none, probe_vars, output, dtypes, tools_data>>

\* validator.clean_urls()
UV_clean_urls ==
    /\ obj = "URLValidator"
    /\ call = NoCall
    /\ call' = Call("clean_urls", "")
    /\ ret' = clean_urls(validators, df)
    /\ UNCHANGED <<loaded, obj, df, pass, validators, cleaning_report, df_is_none, probe_vars, output, dtypes, tools_data>>

NextUrl == UV_validate_urls \/ UV_clean_urls

SpecUrl == InitUrl /\ [][NextUrl]_vars

--------------------------------------------------------------------------
(* Properties of URL cleaning *)

\* The classification of spec section 4.2 for the record at position i.
UrlClass(i) ==
    IF isna(df[i].rec[url_column]) THEN "missing"
    ELSE IF is_valid_url(validators, df[i].rec[url_column]) THEN "valid"
    ELSE "invalid"

\* The fallback pattern classifies the sample strings as the pattern reads.
PatternSamples ==
    /\ PatternMatch(with_scheme(strip(UrlPlain)))
    /\ PatternMatch(with_scheme(strip(UrlPadded)))
    /\ PatternMatch(with_scheme(strip(UrlLocal)))
    /\ ~PatternMatch(with_scheme(strip(UrlSpace)))
    /\ ~PatternMatch(with_scheme(strip(UrlBareQuery)))

\* C5: clean_urls partitions the input: a record is in invalid exactly when
\* its URL is present and not valid, in cleaned otherwise, never in both or
\* neither; cleaned keeps the records as stored, URL value included.
C5_UrlPartition ==
    Returned("clean_urls") =>
        LET bad == {i \in DOMAIN df : UrlClass(i) = "invalid"} IN
        /\ ret.cleaned = reset_index(Mask(df, DOMAIN df \ bad))
        /\ drop(ret.rejected, {"url_valid", "url_missing"}) = Mask(df, bad)
        /\ Len(ret.cleaned) + Len(ret.rejected) = Len(df)

\* C5 witness: a run that kept a record with a missing URL and a padded URL
\* as stored, and rejected a record.
C5_Witness ==
    /\ Returned("clean_urls")
    /\ Len(ret.rejected) >= 1
    /\ \E i \in DOMAIN ret.cleaned : isna(ret.cleaned[i].rec[url_column])
    /\ \E i \in DOMAIN ret.cleaned : ret.cleaned[i].rec[url_column] = StrV(UrlPadded)

--------------------------------------------------------------------------
(* Python's float() and int() on a cell *)

DigitSeq == <<"0", "1", "2", "3", "4", "5", "6", "7", "8", "9">>
DigitVal(c) == (CHOOSE i \in DOMAIN DigitSeq : DigitSeq[i] = c) - 1

\* The number a non-empty run of digits denotes.
RECURSIVE DigitsVal(_)
DigitsVal(ds) ==
    IF ds = <<>> THEN 0
    ELSE 10 * DigitsVal(SubSeq(ds, 1, Len(ds) - 1)) + DigitVal(ds[Len(ds)])

\* The text after an optional sign.
Magnitude(body) ==
    IF body # <<>> /\ body[1] \in {"+", "-"} THEN SubSeq(body, 2, Len(body)) ELSE body

\* Digits with at most one "." among them, at least one digit.
IsDecimal(mag) ==
    /\ AllIn(mag, Digits \cup {"."})
    /\ Cardinality({i \in DOMAIN mag : mag[i] = "."}) <= 1
    /\ \E i \in DOMAIN mag : mag[i] \in Digits

\* The whole-number part of a decimal: the digits before its ".".
IntegerPart(mag) ==
    DigitsVal(SubSeq(mag, 1,
        Cardinality({i \in DOMAIN mag : \A j \in 1..i : mag[j] # "."})))

\* float() of an unsigned text mag whose lower-case form is word:
\* [ok, kind, neg, ipart] with kind "num" (ipart the integer part of the
\* magnitude), "inf" or "nan"; ok = FALSE is ValueError.  Accepted here:
\* digits with an optional fraction, inf, infinity, nan; exponents are not
\* written in the inputs of this model.
FloatOfWord(word, mag, neg) ==
    IF word \in {<<"i", "n", "f">>, <<"i", "n", "f", "i", "n", "i", "t", "y">>}
    THEN [ok |-> TRUE, kind |-> "inf", neg |-> neg, ipart |-> 0]
    ELSE IF word = <<"n", "a", "n">>
    THEN [ok |-> TRUE, kind |-> "nan", neg |-> neg, ipart |-> 0]
    ELSE IF IsDecimal(mag)
    THEN [ok |-> TRUE, kind |-> "num", neg |-> neg, ipart |-> IntegerPart(mag)]
    ELSE [ok |-> FALSE, kind |-> "nan", neg |-> FALSE, ipart |-> 0]

FloatOfMagnitude(mag, neg) == FloatOfWord(lower_str(mag), mag, neg)

\* float() of a text without surrounding whitespace: an optional sign, then
\* the magnitude.
FloatOfBody(body) ==
    FloatOfMagnitude(Magnitude(body), body # <<>> /\ body[1] = "-")

\* float(text)
PyFloatStr(text) == FloatOfBody(strip(text))

\* n tenths truncated toward zero to a whole number.
Trunc(n) == IF n >= 0 THEN n \div 10 ELSE -((-n) \div 10)

\* int(f) for the float f that float(text) gave.
IntOfFloat(f) ==
    IF ~f.ok THEN [exc |-> "ValueError", val |-> 0]
    ELSE IF f.kind = "nan" THEN [exc |-> "ValueError", val |-> 0]
    ELSE IF f.kind = "inf" THEN [exc |-> "OverflowError", val |-> 0]
    ELSE [exc |-> "none", val |-> IF f.neg THEN -f.ipart ELSE f.ipart]

\* int(float(v)) for a cell that is not missing: [exc, val], exc "none" when
\* it returns val, else the exception it raises.
PyIntFloat(v) ==
    CASE v.kind = "int" -> [exc |-> "none", val |-> Trunc(v.n)]
      [] v.kind = "float" -> [exc |-> "none", val |-> Trunc(v.n)]
      [] v.kind = "bool" -> [exc |-> "none", val |-> Trunc(v.n)]
      [] v.kind = "inf" -> [exc |-> "OverflowError", val |-> 0]
      [] v.kind = "str" -> IntOfFloat(PyFloatStr(v.s))
      [] OTHER -> [exc |-> "TypeError", val |-> 0]

--------------------------------------------------------------------------
(* YearValidator *)

year_column == "Launch Year"
min_year == 2015
max_year == 2026

Label(name) == StrV(<<name>>)

\* A result that is either a value or a raised exception.
Value(v) == [exc |-> "none", val |-> v]
Raise(e) == [exc |-> e, val |-> NaN]

\* The try block of is_valid_year on the outcome y of int(float(year)):
\* ValueError and TypeError give False, any other exception leaves the
\* function.
year_in_range(y) ==
    IF y.exc = "none"
    THEN Value(BoolV(min_year <= y.val /\ y.val <= max_year))
    ELSE IF y.exc \in {"ValueError", "TypeError"}
    THEN Value(BoolV(FALSE))
    ELSE Raise(y.exc)

\* is_valid_year: None for a missing year, else whether int(float(year)) is
\* within the bounds.
is_valid_year(year) ==
    IF isna(year) THEN Value(NaN) ELSE year_in_range(PyIntFloat(year))

\* The try block of categorize_invalid on the outcome y of int(float(...)):
\* the bare except gives non_numeric.
categorize_number(y) ==
    IF y.exc # "none" THEN "non_numeric"
    ELSE IF y.val > max_year THEN "future"
    ELSE IF y.val < min_year THEN "too_old"
    ELSE "invalid"

\* categorize_invalid(row) of validate_years.
categorize_invalid(rec) ==
    IF truth(rec.year_missing) THEN "missing"
    ELSE IF truth(rec.year_valid) THEN "valid"
    ELSE categorize_number(PyIntFloat(rec[year_column]))

\* results[year_column].apply(self.is_valid_year), one outcome per row.
year_verdicts(t) == MapRows(t, LAMBDA k, e : is_valid_year(e.rec[year_column]))

\* The exception of the first row whose is_valid_year raised, else "none".
first_raised(verdicts) ==
    IF \A i \in DOMAIN verdicts : verdicts[i].exc = "none" THEN "none"
    ELSE verdicts[CHOOSE i \in DOMAIN verdicts :
                     /\ verdicts[i].exc # "none"
                     /\ \A j \in 1..(i - 1) : verdicts[j].exc = "none"].exc

\* results['year_missing'] = ...; results['year_valid'] = ...
with_year_flags(t, verdicts) ==
    MapRows(t, LAMBDA k, e :
        [idx |-> e.idx,
         rec |-> assign(e.rec,
                    [year_missing |-> BoolV(isna(e.rec[year_column])),
                     year_valid |-> verdicts[k].val])])

\* results['year_issue'] = results.apply(categorize_invalid, axis=1)
with_year_issue(flagged) ==
    MapRows(flagged, LAMBDA k, e :
        [idx |-> e.idx,
         rec |-> assign(e.rec, [year_issue |-> Label(categorize_invalid(e.rec))])])

validate_years_of(t, verdicts) ==
    IF first_raised(verdicts) # "none"
    THEN [status |-> "raised", exc |-> first_raised(verdicts)]
    ELSE [status |-> "returned",
          results |-> with_year_issue(with_year_flags(t, verdicts))]

\* validate_years(): the table with year_missing, year_valid and year_issue
\* added, or the exception that is_valid_year let through.
validate_years(t) == validate_years_of(t, year_verdicts(t))

year_helpers == {"year_missing", "year_valid", "year_issue"}

\* ~validated['year_issue'].isin(['valid', 'missing'])
invalid_year_mask(validated) ==
    {i \in DOMAIN validated :
        validated[i].rec.year_issue \notin {Label("valid"), Label("missing")}}

\* cleaned.loc[mask, col] = np.nan
nullify(validated, mask, col) ==
    MapRows(validated, LAMBDA k, e :
        IF k \in mask
        THEN [idx |-> e.idx, rec |-> assign(e.rec, [c \in {col} |-> NaN])]
        ELSE e)

\* The strategy test of clean_years with 'nullify' as the fall-through.
year_strategy_lenient(strategy) ==
    IF strategy = "remove" THEN "remove" ELSE "nullify"

\* if strategy == 'remove' ... elif strategy == 'nullify' ... else: raise
year_strategy(strategy) ==
    IF strategy = "remove" THEN "remove"
    ELSE IF strategy = "nullify" THEN "nullify"
    ELSE "ValueError"

\* validated[validated['year_issue'].isin(['valid', 'missing'])]
remove_cleaned(validated) ==
    Mask(validated, DOMAIN validated \ invalid_year_mask(validated))

\* The body of clean_years after validated = self.validate_years().
clean_validated(validated, strategy) ==
    IF year_strategy(strategy) = "ValueError"
    THEN [status |-> "raised", exc |-> "ValueError"]
    ELSE [status |-> "returned",
          cleaned |->
             reset_index(drop(
                 IF year_strategy(strategy) = "remove"
                 THEN remove_cleaned(validated)
                 ELSE nullify(validated, invalid_year_mask(validated), year_column),
                 year_helpers)),
          rejected |-> Mask(validated, invalid_year_mask(validated))]

clean_years_of(v, strategy) ==
    IF v.status = "raised" THEN v ELSE clean_validated(v.results, strategy)

clean_years(t, strategy) == clean_years_of(validate_years(t), strategy)

\* Line 325: a two-digit year is moved into the 2000s or the 1900s.
expand_two_digit(year_int) ==
    IF 0 <= year_int /\ year_int <= 99
    THEN IF year_int <= max_year % 100 THEN 2000 + year_int ELSE 1900 + year_int
    ELSE year_int

\* Lines 328-332 without the min_year test.
correction_no_min(original, year_int, cell) ==
    IF year_int > max_year THEN cell
    ELSE IF year_int # original /\ year_int <= max_year
    THEN IntV(year_int)
    ELSE cell

\* Lines 328-332: the year stored for a cell that parsed to original and
\* expanded to year_int.
correction(original, year_int, cell) ==
    IF year_int > max_year THEN cell
    ELSE IF year_int # original /\ min_year <= year_int /\ year_int <= max_year
    THEN IntV(year_int)
    ELSE cell

\* The try block of correct_years on the outcome y of int(float(year)); the
\* bare except skips the row.
correct_parsed(y, cell) ==
    IF y.exc # "none" THEN cell
    ELSE correction(y.val, expand_two_digit(y.val), cell)

\* The year of one row after the loop body of correct_years.
correct_cell(cell) ==
    IF isna(cell) THEN cell ELSE correct_parsed(PyIntFloat(cell), cell)

\* corrections.append({...}) for the rows whose year was rewritten.
corrections_log(t, corrected) ==
    LET F[k \in 0..Len(t)] ==
            IF k = 0 THEN <<>>
            ELSE IF corrected[k].rec[year_column] = t[k].rec[year_column]
            THEN F[k - 1]
            ELSE Append(F[k - 1],
                        [index |-> t[k].idx,
                         original |-> PyIntFloat(t[k].rec[year_column]).val,
                         corrected |-> Trunc(corrected[k].rec[year_column].n),
                         tool |-> t[k].rec["Tool Name"]])
    IN F[Len(t)]

correct_years_of(t, corrected) ==
    [status |-> "returned",
     corrected |-> corrected,
     corrections |-> corrections_log(t, corrected)]

\* correct_years(): the corrected copy and the log of corrections.
correct_years(t) ==
    correct_years_of(t,
        MapRows(t, LAMBDA k, e :
            [idx |-> e.idx,
             rec |-> assign(e.rec,
                        [c \in {year_column} |-> correct_cell(e.rec[year_column])])]))

--------------------------------------------------------------------------
(* Inputs of the year runs *)

YearCells ==
    {NaN, IntV(2020), IntV(1999), FloatV(20269), Inf,
     StrV(<<"2", "0", "3", "1">>), StrV(<<"a", "b", "c">>),
     StrV(<<"2", "0", "2", "0">>),
     IntV(20), IntV(5), StrV(<<"9", "9">>)}

YearRows ==
    {[c \in Columns |->
        CASE c = "Tool Name" -> NameA
          [] c = "Company" -> CoX
          [] c = "Website" -> SiteA
          [] c = "review_count" -> IntV(1)
          [] c = "average_rating" -> FloatV(45)
          [] c = "Launch Year" -> y] : y \in YearCells}

\* The strategy arguments tried: the two the code knows and one it does not.
Strategies == {"remove", "nullify", "drop"}

\* Tables of at least one row: what validate_years does on an empty table
\* rests on what DataFrame.apply(axis=1) returns for an empty frame, which
\* differs between pandas releases and is left out.
InitYear ==
    /\ loaded \in {RangeIndex(rows) : rows \in SeqsUpTo(YearRows, MaxRows) \ {<<>>}}
    /\ obj = "YearValidator"
    /\ df = loaded
    /\ call = NoCall
    /\ ret = NoRet
    /\ pass = 0
    /\ NoProbes
    /\ output = NoOutput
    /\ tools_data = <<>>
    /\ dtypes = <<>>
    /\ validators = NotInstalled
    /\ cleaning_report = NoReport
    /\ df_is_none = FALSE

\* validator.validate_years()
YV_validate_years ==
    /\ obj = "YearValidator"
    /\ call = NoCall
    /\ call' = Call("validate_years", "")
    /\ ret' = validate_years(df)
    /\ UNCHANGED <<loaded, obj, df, pass, validators, cleaning_report, df_is_none, probe_vars, output, dtypes, tools_data>>

\* validator.clean_years(strategy)
YV_clean_years ==
    /\ obj = "YearValidator"
    /\ call = NoCall
    /\ \E strategy \in Strategies :
          /\ call' = Call("clean_years", strategy)
          /\ ret' = clean_years(df, strategy)
    /\ UNCHANGED <<loaded, obj, df, pass, validators, cleaning_report, df_is_none, probe_vars, output, dtypes, tools_data>>

\* validator.correct_years()
YV_correct_years ==
    /\ obj = "YearValidator"
    /\ call = NoCall
    /\ call' = Call("correct_years", "")
    /\ ret' = correct_years(df)
    /\ UNCHANGED <<loaded, obj, df, pass, validators, cleaning_report, df_is_none, probe_vars, output, dtypes, tools_data>>

--------------------------------------------------------------------------
(* NumericValidator *)

rating_col == "average_rating"
review_col == "review_count"
rating_min == 0
rating_max == 5

Column(t, col) == [i \in DOMAIN t |-> t[i].rec[col]]

\* The dtype pandas gives a column holding these cells.
dtype(cells) ==
    IF \E i \in DOMAIN cells : cells[i].kind \in {"str", "bool"} \/ cells[i] = NoneV
    THEN "object"
    ELSE IF \A i \in DOMAIN cells : cells[i].kind = "int" THEN "int64"
    ELSE "float64"

\* cell < bound and cell > bound on a numeric column (bound a whole number);
\* a comparison with NaN is False.
lt(cell, bound) == cell.kind \in {"int", "float"} /\ cell.n < 10 * bound
gt(cell, bound) ==
    \/ cell.kind = "inf"
    \/ cell.kind \in {"int", "float"} /\ cell.n > 10 * bound

\* Comparing an object column that holds text with a number raises.
compare_exc(cells) == IF dtype(cells) = "object" THEN "TypeError" ELSE "none"

\* reviews.astype(int): a float column with NaN or inf cannot be cast.
astype_int_exc(cells) ==
    IF dtype(cells) = "float64"
       /\ \E i \in DOMAIN cells : cells[i].kind \in {"missing", "inf"}
    THEN "ValueError" ELSE "none"

\* The rating mask with the upper bound itself outside the range.
rating_mask_open(t) ==
    {i \in DOMAIN t :
        LET r == t[i].rec[rating_col] IN
        (lt(r, rating_min) \/ ~lt(r, rating_max)) /\ notna(r)}

\* ((ratings < rating_min) | (ratings > rating_max)) & ratings.notna()
rating_mask(t) ==
    {i \in DOMAIN t :
        LET r == t[i].rec[rating_col] IN
        (lt(r, rating_min) \/ gt(r, rating_max)) /\ notna(r)}

\* ((reviews < 0) | (reviews != reviews.astype(int))) & reviews.notna()
review_mask(t) ==
    {i \in DOMAIN t :
        LET r == t[i].rec[review_col] IN
        (lt(r, 0) \/ (r.kind = "float" /\ 10 * Trunc(r.n) # r.n)) /\ notna(r)}

validate_ratings(t) ==
    IF compare_exc(Column(t, rating_col)) # "none"
    THEN [status |-> "raised", exc |-> compare_exc(Column(t, rating_col))]
    ELSE [status |-> "returned", results |-> Mask(t, rating_mask(t))]

validate_reviews(t) ==
    IF compare_exc(Column(t, review_col)) # "none"
    THEN [status |-> "raised", exc |-> compare_exc(Column(t, review_col))]
    ELSE IF astype_int_exc(Column(t, review_col)) # "none"
    THEN [status |-> "raised", exc |-> astype_int_exc(Column(t, review_col))]
    ELSE [status |-> "returned", results |-> Mask(t, review_mask(t))]

\* flagged['invalid_rating'] = ...; flagged['invalid_review'] = ...
with_numeric_flags(t, ratings, reviews) ==
    MapRows(t, LAMBDA k, e :
        [idx |-> e.idx,
         rec |-> assign(e.rec,
                    [invalid_rating |-> BoolV(k \in ratings),
                     invalid_review |-> BoolV(k \in reviews)])])

\* flag_records(): the copy with the two flag columns, or the exception a
\* comparison or reviews.astype(int) raised.
flag_records(t) ==
    IF compare_exc(Column(t, rating_col)) # "none"
    THEN [status |-> "raised", exc |-> compare_exc(Column(t, rating_col))]
    ELSE IF compare_exc(Column(t, review_col)) # "none"
    THEN [status |-> "raised", exc |-> compare_exc(Column(t, review_col))]
    ELSE IF astype_int_exc(Column(t, review_col)) # "none"
    THEN [status |-> "raised", exc |-> astype_int_exc(Column(t, review_col))]
    ELSE [status |-> "returned",
          flagged |-> with_numeric_flags(t, rating_mask(t), review_mask(t))]

\* if strategy == 'remove' ... elif strategy == 'nullify' ... else: raise
record_strategy(strategy) ==
    IF strategy = "remove" THEN "remove"
    ELSE IF strategy = "nullify" THEN "nullify"
    ELSE "ValueError"

clean_records(t, strategy) ==
    LET invalid_ratings == validate_ratings(t)
        invalid_reviews == validate_reviews(t)
    IN IF invalid_ratings.status = "raised" THEN invalid_ratings
       ELSE IF invalid_reviews.status = "raised" THEN invalid_reviews
       ELSE LET invalid_indices ==
                    Index(invalid_ratings.results) \cup Index(invalid_reviews.results)
                branch == record_strategy(strategy)
                cleaned ==
                    IF branch = "remove"
                    THEN Mask(t, DOMAIN t \ isin(t, invalid_indices))
                    ELSE nullify(nullify(t, rating_mask(t), rating_col),
                                 review_mask(t), review_col)
            IN IF branch = "ValueError"
               THEN [status |-> "raised", exc |-> "ValueError"]
               ELSE [status |-> "returned",
                     cleaned |-> reset_index(cleaned),
                     rejected |-> Mask(t, isin(t, invalid_indices))]

--------------------------------------------------------------------------
(* Inputs of the numeric runs *)

RatingCells == {NaN, FloatV(-5), FloatV(0), FloatV(50), FloatV(55)}
ReviewCells == {NaN, IntV(3), IntV(-1), FloatV(25)}

\* The (review count, rating) pairs of the rows: every rating beside a valid
\* or a missing review count, and every review count beside the rating 5.0
\* or 5.5.
NumPairs ==
    (({IntV(3), NaN} \X RatingCells) \cup (ReviewCells \X {FloatV(50), FloatV(55)}))

NumRows ==
    {[c \in Columns |->
        CASE c = "Tool Name" -> NameA
          [] c = "Company" -> CoX
          [] c = "Website" -> SiteA
          [] c = "review_count" -> pr[1]
          [] c = "average_rating" -> pr[2]
          [] c = "Launch Year" -> IntV(2020)] : pr \in NumPairs}

InitNum ==
    /\ loaded \in {RangeIndex(rows) : rows \in SeqsUpTo(NumRows, MaxRows)}
    /\ obj = "NumericValidator"
    /\ df = loaded
    /\ call = NoCall
    /\ ret = NoRet
    /\ pass = 0
    /\ NoProbes
    /\ output = NoOutput
    /\ tools_data = <<>>
    /\ dtypes = <<>>
    /\ validators = NotInstalled
    /\ cleaning_report = NoReport
    /\ df_is_none = FALSE

\* validator.validate_ratings()
NV_validate_ratings ==
    /\ obj = "NumericValidator"
    /\ call = NoCall
    /\ call' = Call("validate_ratings", "")
    /\ ret' = validate_ratings(df)
    /\ UNCHANGED <<loaded, obj, df, pass, validators, cleaning_report, df_is_none, probe_vars, output, dtypes, tools_data>>

\* validator.validate_reviews()
NV_validate_reviews ==
    /\ obj = "NumericValidator"
    /\ call = NoCall
    /\ call' = Call("validate_reviews", "")
    /\ ret' = validate_reviews(df)
    /\ UNCHANGED <<loaded, obj, df, pass, validators, cleaning_report, df_is_none, probe_vars, output, dtypes, tools_data>>

\* validator.clean_records(strategy)
NV_clean_records ==
    /\ obj = "NumericValidator"
    /\ call = NoCall
    /\ \E strategy \in Strategies :
          /\ call' = Call("clean_records", strategy)
          /\ ret' = clean_records(df, strategy)
    /\ UNCHANGED <<loaded, obj, df, pass, validators, cleaning_report, df_is_none, probe_vars, output, dtypes, tools_data>>

\* validator.flag_records()
NV_flag_records ==
    /\ obj = "NumericValidator"
    /\ call = NoCall
    /\ call' = Call("flag_records", "")
    /\ ret' = flag_records(df)
    /\ UNCHANGED <<loaded, obj, df, pass, validators, cleaning_report, df_is_none, probe_vars, output, dtypes, tools_data>>

--------------------------------------------------------------------------
(* The validators on the tables they are given *)

InitValidators == InitYear \/ InitNum

NextValidators ==
    \/ YV_validate_years
    \/ YV_clean_years
    \/ YV_correct_years
    \/ NV_validate_ratings
    \/ NV_validate_reviews
    \/ NV_flag_records
    \/ NV_clean_records

SpecValidators == InitValidators /\ [][NextValidators]_vars

--------------------------------------------------------------------------
(* Properties of the year and numeric validators *)

\* The label spec section 4.3 gives a year cell: missing; non_numeric when
\* it does not convert to a whole number; else by its truncated value.
ClaimLabel(cell) ==
    IF cell.kind = "missing" THEN "missing"
    ELSE LET y == PyIntFloat(cell) IN
         IF y.exc # "none" THEN "non_numeric"
         ELSE IF y.val > max_year THEN "future"
         ELSE IF y.val < min_year THEN "too_old"
         ELSE "valid"

YearLabels ==
    /\ Len(ret.results) = Len(df)
    /\ \A i \in DOMAIN df :
          ret.results[i].rec.year_issue = Label(ClaimLabel(df[i].rec[year_column]))

\* C6: validate_years labels every record of every table with the label of
\* the rule: missing, non_numeric, future, too_old or valid.
C6_EveryRecordLabelled ==
    call.name = "validate_years" => (ret.status = "returned" /\ YearLabels)

\* The labels are those of the rule whenever validate_years returns.
YearLabelsWhenReturned == Returned("validate_years") => YearLabels

ValidationCalls ==
    {"validate_years", "clean_years", "validate_ratings", "validate_reviews",
     "clean_records"}

\* C7: no validation call with a known strategy raises, whatever the cells
\* of the table hold.
C7_NeverRaises ==
    (call.name \in ValidationCalls /\ call.strategy \in {"", "remove", "nullify"})
        => ret.status # "raised"

\* Positions of df whose year the rule labels neither valid nor missing.
BadYears ==
    {i \in DOMAIN df :
        ClaimLabel(df[i].rec[year_column]) \notin {"valid", "missing"}}

RemoveSplit ==
    /\ ret.cleaned = reset_index(Mask(df, DOMAIN df \ BadYears))
    /\ drop(ret.rejected, year_helpers) = Mask(df, BadYears)
    /\ Len(ret.cleaned) + Len(ret.rejected) = Len(df)

\* C8: clean_years('remove') returns the valid-or-missing records as cleaned
\* and all others as invalid, every input record in exactly one of the two.
C8_RemoveSplits ==
    call = Call("clean_years", "remove") => (ret.status = "returned" /\ RemoveSplit)

\* The split is the claimed one whenever clean_years('remove') returns.
RemoveSplitWhenReturned ==
    (call = Call("clean_years", "remove") /\ ret.status = "returned") => RemoveSplit

NullifyFrame ==
    /\ Len(ret.cleaned) = Len(df)
    /\ \A i \in DOMAIN df :
          /\ ret.cleaned[i].idx = i - 1
          /\ ret.cleaned[i].rec =
                IF i \in BadYears
                THEN [df[i].rec EXCEPT ![year_column] = NaN]
                ELSE df[i].rec
    /\ drop(ret.rejected, year_helpers) = Mask(df, BadYears)

\* C9: clean_years('nullify') keeps every record in order, sets to missing
\* exactly the years that are neither valid nor missing, changes nothing
\* else, and returns the nullified records as invalid.
C9_NullifyKeepsAll ==
    call = Call("clean_years", "nullify") => (ret.status = "returned" /\ NullifyFrame)

\* The frame is the claimed one whenever clean_years('nullify') returns.
NullifyFrameWhenReturned ==
    (call = Call("clean_years", "nullify") /\ ret.status = "returned") => NullifyFrame

\* C10: a clean_years or clean_records call with a strategy other than
\* 'remove' and 'nullify' raises, returns no pair, and leaves the
\* validator's table as it was before the call.
C10_UnknownStrategyRaises ==
    [][(/\ call'.name \in {"clean_years", "clean_records"}
        /\ call'.strategy \notin {"remove", "nullify"})
          => (ret'.status = "raised" /\ df' = df)]_vars

\* C10 witness: clean_years('drop') on a table of valid years ended in the
\* ValueError of the strategy test.
C10_Witness ==
    /\ call = Call("clean_years", "drop")
    /\ ret.status = "raised"
    /\ ret.exc = "ValueError"
    /\ Len(df) >= 2
    /\ df = loaded

--------------------------------------------------------------------------
(* Properties of correct_years *)

\* A year cell that parses to a whole number in 0..99.
TwoDigit(cell) ==
    /\ notna(cell)
    /\ PyIntFloat(cell).exc = "none"
    /\ PyIntFloat(cell).val \in 0..99

\* The full year the two-digit heuristic gives such a cell.
Expanded(cell) ==
    IF PyIntFloat(cell).val <= max_year % 100
    THEN 2000 + PyIntFloat(cell).val
    ELSE 1900 + PyIntFloat(cell).val

\* ret.corrected has the rows of df, each with the year want gives its cell
\* and every other field as it was.
CorrectedAs(want(_)) ==
    /\ Len(ret.corrected) = Len(df)
    /\ \A i \in DOMAIN df :
          /\ ret.corrected[i].idx = df[i].idx
          /\ \A c \in Columns \ {year_column} :
                ret.corrected[i].rec[c] = df[i].rec[c]
          /\ ret.corrected[i].rec[year_column] = want(df[i].rec[year_column])

ExpandedUnlessFuture(cell) ==
    IF TwoDigit(cell) /\ Expanded(cell) <= max_year
    THEN IntV(Expanded(cell)) ELSE cell

ExpandedWhenInBounds(cell) ==
    IF TwoDigit(cell) /\ min_year <= Expanded(cell) /\ Expanded(cell) <= max_year
    THEN IntV(Expanded(cell)) ELSE cell

\* C12 as stated: correct_years stores the expanded year for every two-digit
\* year unless the expanded year exceeds max_year, and changes no other
\* year.
C12_TwoDigitExpanded ==
    Returned("correct_years") => CorrectedAs(ExpandedUnlessFuture)

\* C12: correct_years stores the expanded year of a two-digit year exactly
\* when the expanded year lies within [min_year, max_year]; every other
\* year, missing ones included, and every other field is left as it was.
C12_ExpandedWithinBounds ==
    Returned("correct_years") => CorrectedAs(ExpandedWhenInBounds)

C12_Witness ==
    /\ Returned("correct_years")
    /\ \E i \in DOMAIN df :
          /\ TwoDigit(df[i].rec[year_column])
          /\ ret.corrected[i].rec[year_column] = IntV(2020)
    /\ \E i \in DOMAIN df :
          /\ TwoDigit(df[i].rec[year_column])
          /\ ret.corrected[i].rec[year_column] = df[i].rec[year_column]
    /\ Len(ret.corrections) = 1

--------------------------------------------------------------------------
(* Properties of the numeric validator *)

\* The rows of a table without their index labels.
Recs(t) == [i \in DOMAIN t |-> t[i].rec]

\* A rating that is present and outside [rating_min, rating_max].
RatingOutOfBounds(cell) ==
    /\ cell.kind \in {"int", "float"}
    /\ (cell.n < 10 * rating_min \/ cell.n > 10 * rating_max)

\* A review count that is present and negative or not a whole number.
ReviewInvalid(cell) ==
    /\ cell.kind \in {"int", "float"}
    /\ (cell.n < 0 \/ cell.n % 10 # 0)

BadRatings == {i \in DOMAIN df : RatingOutOfBounds(df[i].rec[rating_col])}
BadReviews == {i \in DOMAIN df : ReviewInvalid(df[i].rec[review_col])}

\* C13: validate_ratings returns exactly the records whose rating is present
\* and outside [rating_min, rating_max], and the invalid_rating flag of
\* flag_records is set on exactly those records: the bounds themselves and
\* a missing rating are not flagged.
C13_RatingFlaggedIffOutOfBounds ==
    /\ call.name = "validate_ratings" =>
          /\ ret.status = "returned"
          /\ Len(ret.results) = Cardinality(BadRatings)
          /\ \A i \in DOMAIN df :
                i \in BadRatings <=>
                    \E k \in DOMAIN ret.results : ret.results[k] = df[i]
    /\ Returned("flag_records") =>
          \A i \in DOMAIN df :
              ret.flagged[i].rec.invalid_rating = BoolV(i \in BadRatings)

C13_Witness ==
    /\ Returned("flag_records")
    /\ \E i \in DOMAIN df :
          /\ df[i].rec[rating_col] = FloatV(55)
          /\ ret.flagged[i].rec.invalid_rating = BoolV(TRUE)
    /\ \E i \in DOMAIN df :
          /\ df[i].rec[rating_col] = FloatV(50)
          /\ ret.flagged[i].rec.invalid_rating = BoolV(FALSE)
    /\ \E i \in DOMAIN df :
          /\ isna(df[i].rec[rating_col])
          /\ ret.flagged[i].rec.invalid_rating = BoolV(FALSE)

\* The review flags are the rule's in the result r of a call.
ReviewFlags ==
    /\ call.name = "validate_reviews" =>
          /\ Len(ret.results) = Cardinality(BadReviews)
          /\ \A i \in DOMAIN df :
                i \in BadReviews <=>
                    \E k \in DOMAIN ret.results : ret.results[k] = df[i]
    /\ call.name = "flag_records" =>
          \A i \in DOMAIN df :
              ret.flagged[i].rec.invalid_review = BoolV(i \in BadReviews)

\* C14: on every table, one with missing review counts included,
\* validate_reviews and flag_records return, and they flag exactly the
\* records whose review count is present and negative or non-integral.
C14_ReviewFlaggedIffInvalid ==
    call.name \in {"validate_reviews", "flag_records"} =>
        ret.status = "returned" /\ ReviewFlags

\* The review flags are the rule's whenever the call returns.
ReviewFlagsWhenReturned ==
    (call.name \in {"validate_reviews", "flag_records"} /\ ret.status = "returned")
        => ReviewFlags

\* ret is the split of df into the records without and with an invalid
\* rating or review count.
RecordSplit ==
    /\ ret.rejected = Mask(df, BadRatings \cup BadReviews)
    /\ Recs(ret.cleaned) = Recs(Mask(df, DOMAIN df \ (BadRatings \cup BadReviews)))
    /\ Len(ret.cleaned) + Len(ret.rejected) = Len(df)

\* C15: clean_records('remove') returns the records with an invalid rating
\* or an invalid review count as the invalid table and all other records,
\* unchanged and in order, as the cleaned table.
C15_RemoveUnion ==
    call = Call("clean_records", "remove") =>
        ret.status = "returned" /\ RecordSplit

RecordSplitWhenReturned ==
    (call = Call("clean_records", "remove") /\ ret.status = "returned")
        => RecordSplit

\* ret.cleaned is df with each invalid rating and each invalid review count
\* replaced by missing and nothing else changed.
RecordsNullified ==
    /\ Len(ret.cleaned) = Len(df)
    /\ \A i \in DOMAIN df :
          \A c \in Columns :
              ret.cleaned[i].rec[c] =
                  IF \/ c = rating_col /\ i \in BadRatings
                     \/ c = review_col /\ i \in BadReviews
                  THEN NaN ELSE df[i].rec[c]

\* C16: clean_records('nullify') keeps every record, sets exactly the
\* invalid rating and review-count fields to missing and changes no other
\* field.
C16_NullifyOnlyInvalid ==
    call = Call("clean_records", "nullify") =>
        ret.status = "returned" /\ RecordsNullified

RecordsNullifiedWhenReturned ==
    (call = Call("clean_records", "nullify") /\ ret.status = "returned")
        => RecordsNullified

--------------------------------------------------------------------------
(* pandas aggregations: isnull().sum(), median(), mode() *)

\* Characters in code-point order, the order str comparison and sorting use.
CodeOrder ==
    <<"\t", "\n", " ", "+", "-", ".", "/",
      "0", "1", "2", "3", "4", "5", "6", "7", "8", "9", ":", "=", "?",
      "A", "B", "C", "D", "E", "F", "G", "H", "I", "J", "K", "L", "M",
      "N", "O", "P", "Q", "R", "S", "T", "U", "V", "W", "X", "Y", "Z", "_",
      "a", "b", "c", "d", "e", "f", "g", "h", "i", "j", "k", "l", "m",
      "n", "o", "p", "q", "r", "s", "t", "u", "v", "w", "x", "y", "z">>

ord(c) == CHOOSE i \in DOMAIN CodeOrder : CodeOrder[i] = c

\* a < b for two str values.
str_lt(a, b) ==
    \E k \in 1..(Len(a) + 1) :
        /\ \A j \in 1..(k - 1) : j <= Len(b) /\ a[j] = b[j]
        /\ k <= Len(b)
        /\ (k > Len(a) \/ ord(a[k]) < ord(b[k]))

Present(cells) == {i \in DOMAIN cells : notna(cells[i])}

\* The k-th smallest of the non-missing numbers of a column (in tenths).
kth_smallest(cells, k) ==
    CHOOSE x \in {cells[i].n : i \in Present(cells)} :
        /\ Cardinality({i \in Present(cells) : cells[i].n < x}) < k
        /\ Cardinality({i \in Present(cells) : cells[i].n <= x}) >= k

\* Series.median() of m non-missing numbers: the middle one in sorted order,
\* the mean of the two middle ones when m is even, NaN when m = 0.
median_of(cells, m) ==
    IF m = 0 THEN NaN
    ELSE IF m % 2 = 1 THEN FloatV(kth_smallest(cells, (m + 1) \div 2))
    ELSE FloatV((kth_smallest(cells, m \div 2)
                 + kth_smallest(cells, m \div 2 + 1)) \div 2)

median(cells) == median_of(cells, Cardinality(Present(cells)))

occurrences(cells, v) == Cardinality({i \in DOMAIN cells : cells[i] = v})

\* Series.mode(): the non-missing values that occur most often.
mode(cells) ==
    {cells[i] : i \in {i \in Present(cells) :
        \A j \in Present(cells) :
            occurrences(cells, cells[j]) <= occurrences(cells, cells[i])}}

\* mode_vals[0]: mode() is sorted, so the first is the least.
first_of(mode_vals) ==
    CHOOSE v \in mode_vals : \A w \in mode_vals : ~str_lt(w.s, v.s)

\* df.isnull().sum().sum()
isnull_sum(t) ==
    LET F[k \in 0..Len(t)] ==
            IF k = 0 THEN 0
            ELSE F[k - 1]
                 + Cardinality({c \in DOMAIN t[k].rec : isna(t[k].rec[c])})
    IN F[Len(t)]

\* series.fillna(value) on one cell; fillna(NaN) changes nothing.
fill_cell(cell, value) == IF isna(cell) THEN value ELSE cell

--------------------------------------------------------------------------
(* DataCleaningPipeline (data_cleaning_pipeline.py) *)
(* pandas before 3.0: fillna(method=...) fills, and                        *)
(* self.df[col].fillna(..., inplace=True) writes through to self.df.       *)

\* df.columns as a set, and the dtype of one column.
names(dts) == {dts[k].name : k \in DOMAIN dts}
dtype_of(dts, c) == dts[CHOOSE k \in DOMAIN dts : dts[k].name = c].dtype

\* df.dropna(subset=columns): the index labels are kept.
dropna(t, columns) ==
    Mask(t, {i \in DOMAIN t : \A c \in columns : notna(t[i].rec[c])})

\* self.df[columns] = self.df[columns].fillna(fill_value)
fill_columns(t, columns, fill_value) ==
    MapRows(t, LAMBDA k, e :
        [idx |-> e.idx,
         rec |-> [c \in DOMAIN e.rec |->
                    IF c \in columns THEN fill_cell(e.rec[c], fill_value)
                    ELSE e.rec[c]]])

\* The cell of the nearest row before row k whose col is not missing.
ffill_cell(t, col, k) ==
    IF \A j \in 1..(k - 1) : isna(t[j].rec[col]) THEN NaN
    ELSE t[CHOOSE j \in 1..(k - 1) :
              /\ notna(t[j].rec[col])
              /\ \A h \in (j + 1)..(k - 1) : isna(t[h].rec[col])].rec[col]

\* The cell of the nearest row after row k whose col is not missing.
bfill_cell(t, col, k) ==
    IF \A j \in (k + 1)..Len(t) : isna(t[j].rec[col]) THEN NaN
    ELSE t[CHOOSE j \in (k + 1)..Len(t) :
              /\ notna(t[j].rec[col])
              /\ \A h \in (k + 1)..(j - 1) : isna(t[h].rec[col])].rec[col]

\* self.df[columns] = self.df[columns].fillna(method='ffill')
ffill_columns(t, columns) ==
    MapRows(t, LAMBDA k, e :
        [idx |-> e.idx,
         rec |-> [c \in DOMAIN e.rec |->
                    IF c \in columns
                    THEN fill_cell(e.rec[c], ffill_cell(t, c, k))
                    ELSE e.rec[c]]])

\* self.df[columns] = self.df[columns].fillna(method='bfill')
bfill_columns(t, columns) ==
    MapRows(t, LAMBDA k, e :
        [idx |-> e.idx,
         rec |-> [c \in DOMAIN e.rec |->
                    IF c \in columns
                    THEN fill_cell(e.rec[c], bfill_cell(t, c, k))
                    ELSE e.rec[c]]])

\* strategy 'auto', one column of dtype dt: the median of an int64/float64
\* column, else mode_value[0] when there is a mode (nothing is filled
\* otherwise).
auto_fill_value(cells, dt) ==
    IF dt \in {"int64", "float64"} THEN median(cells)
    ELSE IF mode(cells) = {} THEN NaN
    ELSE first_of(mode(cells))

auto_columns(t, dts, columns) ==
    MapRows(t, LAMBDA k, e :
        [idx |-> e.idx,
         rec |-> [c \in DOMAIN e.rec |->
                    IF c \in columns
                    THEN fill_cell(e.rec[c],
                                   auto_fill_value(Column(t, c), dtype_of(dts, c)))
                    ELSE e.rec[c]]])

\* The if / elif chain of handle_missing_values: a strategy that matches no
\* branch leaves self.df as it is.
missing_strategy(t, dts, strategy, fill_value, columns) ==
    CASE strategy = "drop" -> dropna(t, columns)
      [] strategy = "fill" -> fill_columns(t, columns, fill_value)
      [] strategy = "ffill" -> ffill_columns(t, columns)
      [] strategy = "bfill" -> bfill_columns(t, columns)
      [] strategy = "auto" -> auto_columns(t, dts, columns)
      [] OTHER -> t

\* A call that raised: nothing was assigned.
raised(exc, t, dts, report) ==
    [status |-> "raised", exc |-> exc, df |-> t, dtypes |-> dts, report |-> report]

\* missing_after = ...; self.cleaning_report['missing_values_handled'] = ...
missing_report(t, dts, report, after) ==
    [status |-> "returned",
     df |-> after,
     dtypes |-> dts,
     report |-> assign(report,
                   [missing_values_handled |-> isnull_sum(t) - isnull_sum(after)])]

\* columns=None / subset=None: every column of the table.
AllColumns == {"*"}

\* columns = self.df.columns when columns is None.
columns_or_all(dts, columns) == IF columns = AllColumns THEN names(dts) ELSE columns

\* handle_missing_values on a loaded table: [status, df, dtypes, report].
\* fill_value None (a missing cell here) makes fillna raise ValueError in the
\* 'fill' branch, and a column the table lacks makes the branch that selects
\* it raise KeyError, before anything is assigned.
handle_missing_values(t, dts, report, strategy, fill_value, columns) ==
    IF strategy \in {"drop", "fill", "ffill", "bfill", "auto"}
       /\ ~(columns_or_all(dts, columns) \subseteq names(dts))
    THEN raised("KeyError", t, dts, report)
    ELSE IF strategy = "fill" /\ isna(fill_value)
    THEN raised("ValueError", t, dts, report)
    ELSE missing_report(t, dts, report,
                        missing_strategy(t, dts, strategy, fill_value,
                                         columns_or_all(dts, columns)))

\* The value a cell is compared by: 10 and 10.0 are the same number, and
\* every missing value is the same key.
key_cell(cell) ==
    IF cell.kind \in {"int", "float"} THEN FloatV(cell.n)
    ELSE IF isna(cell) THEN NaN
    ELSE cell

row_key(rec, subset) == [c \in subset |-> key_cell(rec[c])]

\* df.drop_duplicates(subset, keep) as the set of positions it keeps: of the
\* rows with one key the first, the last, or none (keep=False).
kept_of_duplicates(t, subset, keep) ==
    {i \in DOMAIN t :
        LET same == {j \in DOMAIN t : row_key(t[j].rec, subset) = row_key(t[i].rec, subset)}
        IN CASE keep = "first" -> \A j \in same : i <= j
             [] keep = "last" -> \A j \in same : j <= i
             [] OTHER -> same = {i}}

\* DataCleaningPipeline.remove_duplicates(subset, keep) on a loaded table.
remove_duplicates_after(t, dts, report, after) ==
    [status |-> "returned",
     df |-> after,
     dtypes |-> dts,
     report |-> assign(report, [duplicates_removed |-> Len(t) - Len(after)])]

drop_duplicates(t, dts, report, subset, keep) ==
    IF ~(columns_or_all(dts, subset) \subseteq names(dts))
    THEN raised("KeyError", t, dts, report)
    ELSE remove_duplicates_after(t, dts, report,
            Mask(t, kept_of_duplicates(t, columns_or_all(dts, subset), keep)))

\* Four times Series.quantile(q / 4) of the m > 0 numbers present (linear
\* interpolation between the two nearest ranks), in tenths.
quantile4(cells, m, q) ==
    LET lo == (q * (m - 1)) \div 4
        part == (q * (m - 1)) % 4
    IN IF part = 0 THEN 4 * kth_smallest(cells, lo + 1)
       ELSE 4 * kth_smallest(cells, lo + 1)
            + part * (kth_smallest(cells, lo + 2) - kth_smallest(cells, lo + 1))

\* (col >= Q1 - threshold * IQR) & (col <= Q3 + threshold * IQR), threshold
\* in tenths; every comparison with NaN is False.
within_iqr(cell, q1, q3, threshold) ==
    /\ cell.kind \in {"int", "float"}
    /\ 40 * cell.n >= 10 * q1 - threshold * (q3 - q1)
    /\ 40 * cell.n <= 10 * q3 + threshold * (q3 - q1)

iqr_keeps(cells, m, threshold) ==
    IF m = 0 THEN {}
    ELSE {i \in DOMAIN cells :
            within_iqr(cells[i], quantile4(cells, m, 1), quantile4(cells, m, 3),
                       threshold)}

\* The sum of the numbers present (tenths).
RECURSIVE sum_present(_)
sum_present(cells) ==
    IF cells = <<>> THEN 0
    ELSE (IF notna(cells[1]) THEN cells[1].n ELSE 0) + sum_present(Tail(cells))

\* m * m * (m - 1) times the variance std() ** 2 (ddof = 1) of the numbers
\* present, total being their sum.
RECURSIVE squares(_, _, _)
squares(cells, m, total) ==
    IF cells = <<>> THEN 0
    ELSE (IF notna(cells[1])
          THEN (m * cells[1].n - total) * (m * cells[1].n - total) ELSE 0)
         + squares(Tail(cells), m, total)

\* np.abs((col - mean) / std) < threshold: False for NaN, and for every row
\* when std is NaN (fewer than two numbers) or 0.
below_zscore(cell, m, total, sq, threshold) ==
    /\ cell.kind \in {"int", "float"}
    /\ m >= 2
    /\ sq > 0
    /\ 100 * (m - 1) * (m * cell.n - total) * (m * cell.n - total)
          < threshold * threshold * sq

zscore_keeps_of(cells, m, total, threshold) ==
    {i \in DOMAIN cells :
        below_zscore(cells[i], m, total, squares(cells, m, total), threshold)}

zscore_keeps(cells, threshold) ==
    zscore_keeps_of(cells, Cardinality(Present(cells)), sum_present(cells), threshold)

\* One turn of the loop of remove_outliers: the rows of t within the bounds
\* of column col.
without_outliers(t, col, method, threshold) ==
    CASE method = "iqr" ->
            Mask(t, iqr_keeps(Column(t, col),
                              Cardinality(Present(Column(t, col))), threshold))
      [] method = "zscore" -> Mask(t, zscore_keeps(Column(t, col), threshold))
      [] OTHER -> t

\* select_dtypes(include=[np.number]).columns.tolist()
numeric_columns(dts) ==
    SelectSeq([k \in DOMAIN dts |-> dts[k]],
              LAMBDA d : d.dtype \in {"int64", "float64"})

\* for col in columns: ..., on the table the turns before left.
RECURSIVE outlier_loop(_, _, _, _)
outlier_loop(t, columns, method, threshold) ==
    IF columns = <<>> THEN t
    ELSE outlier_loop(without_outliers(t, columns[1].name, method, threshold),
                      Tail(columns), method, threshold)

remove_outliers_after(t, dts, report, after) ==
    [status |-> "returned",
     df |-> after,
     dtypes |-> dts,
     report |-> assign(report, [outliers_removed |-> Len(t) - Len(after)])]

\* remove_outliers(columns=None, method, threshold) on a loaded table.
remove_outliers(t, dts, report, method, threshold) ==
    remove_outliers_after(t, dts, report,
        outlier_loop(t, numeric_columns(dts), method, threshold))

\* str(n) for a whole number n >= 0.
RECURSIVE nat_str(_)
nat_str(n) ==
    IF n < 10 THEN <<DigitSeq[n + 1]>>
    ELSE Append(nat_str(n \div 10), DigitSeq[(n % 10) + 1])

\* astype(str) on one cell: str(value), 'nan' for NaN and 'None' for None.
astype_str(cell) ==
    CASE cell.kind = "str" -> cell
      [] cell = NoneV -> StrV(<<"N", "o", "n", "e">>)
      [] cell.kind = "missing" -> StrV(<<"n", "a", "n">>)
      [] cell.kind = "inf" -> StrV(<<"i", "n", "f">>)
      [] cell.kind = "bool" ->
            StrV(IF cell.n = 10 THEN <<"T", "r", "u", "e">>
                 ELSE <<"F", "a", "l", "s", "e">>)
      [] cell.kind = "int" ->
            StrV((IF cell.n < 0 THEN <<"-">> ELSE <<>>)
                 \o nat_str((IF cell.n < 0 THEN -cell.n ELSE cell.n) \div 10))
      [] OTHER ->
            StrV((IF cell.n < 0 THEN <<"-">> ELSE <<>>)
                 \o nat_str((IF cell.n < 0 THEN -cell.n ELSE cell.n) \div 10)
                 \o <<".">>
                 \o nat_str((IF cell.n < 0 THEN -cell.n ELSE cell.n) % 10))

\* str.replace(r'[^a-zA-Z0-9\s]', '', regex=True)
remove_special(cs) ==
    SelectSeq(cs, LAMBDA c : c \in Letters \cup Digits \cup Whitespace)

\* The three steps of standardize_text on one cell of a text column.
standardized_text(cell, flags) ==
    LET stripped == IF flags.strip THEN StrV(strip(astype_str(cell).s)) ELSE cell
        lowered == IF flags.lowercase
                   THEN StrV(lower_str(astype_str(stripped).s)) ELSE stripped
    IN IF flags.remove_special
       THEN StrV(remove_special(astype_str(lowered).s)) ELSE lowered

\* select_dtypes(include=['object']).columns
text_columns(dts) == {dts[k].name : k \in {k \in DOMAIN dts : dts[k].dtype = "object"}}

\* standardize_text(columns=None, lowercase, strip, remove_special) on a
\* loaded table.
standardize_text(t, dts, report, flags) ==
    [status |-> "returned",
     df |-> MapRows(t, LAMBDA k, e :
                [idx |-> e.idx,
                 rec |-> [c \in DOMAIN e.rec |->
                            IF c \in text_columns(dts)
                            THEN standardized_text(e.rec[c], flags)
                            ELSE e.rec[c]]]),
     dtypes |-> dts,
     report |-> assign(report,
                   [text_columns_standardized |-> Cardinality(text_columns(dts))])]

\* Series.astype(to) raises: int on NaN or inf, int or float on text.
astype_exc(cells, to) ==
    IF \E i \in DOMAIN cells :
          \/ cells[i].kind = "str"
          \/ cells[i] = NoneV
          \/ to = "int" /\ cells[i].kind \in {"missing", "inf"}
    THEN "ValueError" ELSE "none"

\* astype(to) on one cell of a column that can be cast.
astype_cell(cell, to) ==
    IF cell.kind \in {"int", "float", "bool"}
    THEN IF to = "int" THEN IntV(Trunc(cell.n)) ELSE FloatV(cell.n)
    ELSE cell

\* One entry of type_dict: the column cast, or the exception logged and the
\* table left as it was.
converted(r, col, to) ==
    IF col \notin names(r.dtypes) \/ astype_exc(Column(r.df, col), to) # "none"
    THEN r
    ELSE [r EXCEPT
            !.df = MapRows(r.df, LAMBDA k, e :
                      [idx |-> e.idx,
                       rec |-> [c \in DOMAIN e.rec |->
                                  IF c = col THEN astype_cell(e.rec[c], to)
                                  ELSE e.rec[c]]]),
            !.dtypes = [k \in DOMAIN r.dtypes |->
                          IF r.dtypes[k].name = col
                          THEN [name |-> col,
                                dtype |-> IF to = "int" THEN "int64" ELSE "float64"]
                          ELSE r.dtypes[k]]]

RECURSIVE convert_loop(_, _)
convert_loop(r, type_dict) ==
    IF type_dict = <<>> THEN r
    ELSE convert_loop(converted(r, type_dict[1].col, type_dict[1].to),
                      Tail(type_dict))

\* convert_data_types(type_dict) on a loaded table; type_dict as the list of
\* its items.
convert_data_types(t, dts, report, type_dict) ==
    convert_loop([status |-> "returned", df |-> t, dtypes |-> dts,
                  report |-> assign(report,
                                [columns_type_converted |-> Len(type_dict)])],
                 type_dict)

\* The column names of the runs, by their characters.
ColumnChars ==
    [c \in {"Tool Name", "review_count", "tool_name", "reviews"} |->
        CASE c = "Tool Name" -> <<"T", "o", "o", "l", " ", "N", "a", "m", "e">>
          [] c = "review_count" ->
                <<"r", "e", "v", "i", "e", "w", "_", "c", "o", "u", "n", "t">>
          [] c = "tool_name" -> <<"t", "o", "o", "l", "_", "n", "a", "m", "e">>
          [] c = "reviews" -> <<"r", "e", "v", "i", "e", "w", "s">>]

column_named(cs) == CHOOSE c \in DOMAIN ColumnChars : ColumnChars[c] = cs

\* re.sub(r'(?<!^)(?=[A-Z])', '_', col): an underscore before every capital
\* but a leading one.
RECURSIVE before_capitals(_, _)
before_capitals(cs, k) ==
    IF k > Len(cs) THEN <<>>
    ELSE (IF k > 1 /\ \E i \in DOMAIN UpperSeq : UpperSeq[i] = cs[k]
          THEN <<"_", cs[k]>> ELSE <<cs[k]>>)
         \o before_capitals(cs, k + 1)

\* re.sub(r'[^a-z0-9_]', '_', snake)
word_chars(cs) ==
    [i \in DOMAIN cs |->
        IF (\E j \in DOMAIN LowerSeq : LowerSeq[j] = cs[i]) \/ cs[i] \in Digits \cup {"_"}
        THEN cs[i] ELSE "_"]

\* re.sub(r'_+', '_', snake).strip('_')
RECURSIVE squeezed(_)
squeezed(cs) ==
    IF cs = <<>> THEN <<>>
    ELSE IF cs[1] = "_" /\ (Len(cs) = 1 \/ cs[2] = "_") THEN squeezed(Tail(cs))
    ELSE <<cs[1]>> \o squeezed(Tail(cs))

strip_underscores(cs) == IF cs # <<>> /\ cs[1] = "_" THEN Tail(cs) ELSE cs

\* The snake_case name of a column.
snake(cs) == strip_underscores(squeezed(word_chars(lower_str(before_capitals(cs, 1)))))

\* df.rename(columns=mapping): the columns and dtypes under their new names.
renamed(r, mapping) ==
    LET new(c) == IF c \in DOMAIN mapping THEN mapping[c] ELSE c
    IN [r EXCEPT
          !.df = MapRows(r.df, LAMBDA k, e :
                    [idx |-> e.idx,
                     rec |-> [c \in {new(o) : o \in DOMAIN e.rec} |->
                                e.rec[CHOOSE o \in DOMAIN e.rec : new(o) = c]]]),
          !.dtypes = [k \in DOMAIN r.dtypes |->
                        [name |-> new(r.dtypes[k].name), dtype |-> r.dtypes[k].dtype]]]

snake_mapping(dts) ==
    [c \in names(dts) |-> column_named(snake(ColumnChars[c]))]

\* rename_columns(rename_dict, snake_case) on a loaded table: rename_dict
\* is applied when it is not empty, then the snake_case names.
rename_with(r, rename_dict) ==
    IF DOMAIN rename_dict # {} THEN renamed(r, rename_dict) ELSE r

rename_snake(r, snake_case) ==
    IF snake_case THEN renamed(r, snake_mapping(r.dtypes)) ELSE r

rename_columns(t, dts, report, rename_dict, snake_case) ==
    rename_snake(rename_with([status |-> "returned", df |-> t, dtypes |-> dts,
                              report |-> report], rename_dict),
                 snake_case)

\* remove_columns(columns) on a loaded table: the listed columns the table
\* has are dropped.
remove_columns(t, dts, report, columns) ==
    [status |-> "returned",
     df |-> drop(t, columns \cap names(dts)),
     dtypes |-> SelectSeq([k \in DOMAIN dts |-> dts[k]],
                          LAMBDA d : d.name \notin columns),
     report |-> assign(report,
                   [columns_removed |-> Cardinality(columns \cap names(dts))])]

\* to_csv(output_path, index=False): the header and the rows, without the
\* index.
to_csv(t, dts) ==
    [exists |-> TRUE,
     data |-> <<[k \in DOMAIN dts |-> dts[k].name]>>
              \o [i \in DOMAIN t |-> [k \in DOMAIN dts |-> t[i].rec[dts[k].name]]],
     error |-> "none"]

\* The try block of DataCleaningPipeline.save_cleaned_data after a write
\* that went through.
save_report(t, dts, report) ==
    assign(report, [final_rows |-> Len(t), final_columns |-> Len(dts)])

\* pd.read_csv: the dtype of each column of the file; a file with a header
\* and no rows gives object columns.
read_csv_dtypes(t, order) ==
    [k \in DOMAIN order |->
        [name |-> order[k],
         dtype |-> IF t = <<>> THEN "object" ELSE dtype(Column(t, order[k]))]]

--------------------------------------------------------------------------
(* Inputs of the pipeline runs *)

PipeColumns == {"Tool Name", "review_count"}

\* The columns of the file in their order.
PipeColumnOrder == <<"Tool Name", "review_count">>

NameB == StrV(<<"B">>)

\* Largest number of rows of the file a pipeline loads.
MaxPipeRows == 2
\* Largest number of stage calls made on one pipeline.
MaxCalls == 2

PipeRows ==
    {[c \in PipeColumns |-> IF c = "Tool Name" THEN nm ELSE rv] :
        nm \in {NaN, NameA}, rv \in {NaN, IntV(10), IntV(20)}}

PipeTables == {RangeIndex(rows) : rows \in SeqsUpTo(PipeRows, MaxPipeRows)}

\* The strategies of the docstring of handle_missing_values, and one more.
MissingStrategies == {"drop", "fill", "auto", "ffill", "bfill"}
PipeStrategies == MissingStrategies \cup {"median"}

\* The (strategy, fill_value, columns) arguments tried: every strategy on
\* every column with the default fill_value, and 'drop' and 'fill' with 0 on
\* review_count.
MissingArguments ==
    {[strategy |-> st, fill_value |-> NaN, columns |-> AllColumns] :
        st \in PipeStrategies}
    \cup {[strategy |-> "drop", fill_value |-> NaN, columns |-> {"review_count"}],
          [strategy |-> "fill", fill_value |-> IntV(0), columns |-> {"review_count"}]}

\* The (subset, keep) arguments tried; "none" is keep=False.
DuplicateArguments ==
    {[subset |-> AllColumns, keep |-> k] : k \in {"first", "last", "none"}}
    \cup {[subset |-> {"Tool Name"}, keep |-> "first"]}

\* The methods tried, with the default threshold 1.5 (in tenths).
OutlierMethods == {"iqr", "zscore"}
DefaultThreshold == 15

\* The flags tried: the defaults, and remove_special=True.
TextFlags ==
    {[lowercase |-> TRUE, strip |-> TRUE, remove_special |-> r] : r \in BOOLEAN}

\* The type_dict arguments tried.
TypeDicts == {<<[col |-> "review_count", to |-> t]>> : t \in {"int", "float"}}

\* The (rename_dict, snake_case) arguments tried.
RenameArguments ==
    {[rename_dict |-> <<>>, snake_case |-> TRUE],
     [rename_dict |-> [c \in {"review_count"} |-> "reviews"], snake_case |-> FALSE]}

\* The columns argument of remove_columns: one the file has, one it lacks.
RemovedColumns == {"Tool Name", "age"}

\* What to_csv may raise.
WriteErrors == {"PermissionError"}

\* DataCleaningPipeline(filepath)
InitPipe ==
    /\ loaded = EmptyFrame
    /\ obj = "DataCleaningPipeline"
    /\ df = EmptyFrame
    /\ df_is_none = TRUE
    /\ call = NoCall
    /\ ret = NoRet
    /\ pass = 0
    /\ NoProbes
    /\ output = NoOutput
    /\ tools_data = <<>>
    /\ dtypes = <<>>
    /\ validators = NotInstalled
    /\ cleaning_report = NoReport

\* pipeline.load_data(): read_csv gives a table, or raises and the except
\* clause re-raises.
PL_load_data ==
    /\ obj = "DataCleaningPipeline"
    /\ call = NoCall
    /\ call' = Call("load_data", "")
    /\ \/ \E t \in PipeTables :
             /\ df' = t
             /\ loaded' = t
             /\ dtypes' = read_csv_dtypes(t, PipeColumnOrder)
             /\ df_is_none' = FALSE
             /\ cleaning_report' =
                   assign(cleaning_report,
                          [original_rows |-> Len(t),
                           original_columns |-> Len(PipeColumnOrder)])
             /\ ret' = [status |-> "returned"]
       \/ /\ ret' = [status |-> "raised", exc |-> "Exception"]
          /\ UNCHANGED <<loaded, df, dtypes, df_is_none, cleaning_report>>
    /\ UNCHANGED <<obj, pass, validators, probe_vars, output, tools_data>>

\* The pipeline after a stage whose outcome is r.
PipeTakes(r) ==
    /\ ret' = [status |-> r.status]
    /\ df' = r.df
    /\ dtypes' = r.dtypes
    /\ cleaning_report' = r.report

\* The guard a stage skips.
no_guard(is_none) == FALSE

\* if self.df is None: logger.warning("No data loaded yet."); return
no_data(is_none) == is_none

\* One stage call: the guard, else the stage with outcome r.
PipeStage(name, label, r) ==
    /\ pass < MaxCalls
    /\ pass' = pass + 1
    /\ call' = Call(name, label)
    /\ IF no_data(df_is_none)
       THEN /\ ret' = [status |-> "returned"]
            /\ UNCHANGED <<df, dtypes, cleaning_report>>
       ELSE PipeTakes(r)
    /\ UNCHANGED <<loaded, obj, validators, df_is_none, probe_vars, output, tools_data>>

\* pipeline.display_info(): only logs.
PL_display_info ==
    /\ obj = "DataCleaningPipeline"
    /\ PipeStage("display_info", "",
                 [status |-> "returned", df |-> df, dtypes |-> dtypes,
                  report |-> cleaning_report])

\* pipeline.remove_duplicates(subset, keep)
PL_remove_duplicates ==
    /\ obj = "DataCleaningPipeline"
    /\ \E a \in DuplicateArguments :
           PipeStage("remove_duplicates", a.keep,
                     drop_duplicates(df, dtypes, cleaning_report, a.subset, a.keep))

\* pipeline.handle_missing_values(strategy, fill_value, columns)
PL_handle_missing_values ==
    /\ obj = "DataCleaningPipeline"
    /\ \E a \in MissingArguments :
           PipeStage("handle_missing_values", a.strategy,
                     handle_missing_values(df, dtypes, cleaning_report, a.strategy,
                                           a.fill_value, a.columns))

\* pipeline.remove_outliers(method=method)
PL_remove_outliers ==
    /\ obj = "DataCleaningPipeline"
    /\ \E method \in OutlierMethods :
           PipeStage("remove_outliers", method,
                     remove_outliers(df, dtypes, cleaning_report, method,
                                     DefaultThreshold))

\* pipeline.standardize_text(remove_special=...)
PL_standardize_text ==
    /\ obj = "DataCleaningPipeline"
    /\ \E flags \in TextFlags :
           PipeStage("standardize_text",
                     IF flags.remove_special THEN "remove_special" ELSE "",
                     standardize_text(df, dtypes, cleaning_report, flags))

\* pipeline.convert_data_types(type_dict)
PL_convert_data_types ==
    /\ obj = "DataCleaningPipeline"
    /\ \E type_dict \in TypeDicts :
           PipeStage("convert_data_types", type_dict[1].to,
                     convert_data_types(df, dtypes, cleaning_report, type_dict))

\* pipeline.rename_columns(rename_dict, snake_case)
PL_rename_columns ==
    /\ obj = "DataCleaningPipeline"
    /\ \E a \in RenameArguments :
           PipeStage("rename_columns", IF a.snake_case THEN "snake_case" ELSE "",
                     rename_columns(df, dtypes, cleaning_report, a.rename_dict,
                                    a.snake_case))

\* pipeline.remove_columns(columns)
PL_remove_columns ==
    /\ obj = "DataCleaningPipeline"
    /\ PipeStage("remove_columns", "",
                 remove_columns(df, dtypes, cleaning_report, RemovedColumns))

\* pipeline.reset_index()
PL_reset_index ==
    /\ obj = "DataCleaningPipeline"
    /\ PipeStage("reset_index", "",
                 [status |-> "returned", df |-> reset_index(df), dtypes |-> dtypes,
                  report |-> cleaning_report])

\* pipeline.save_cleaned_data(output_path): to_csv writes the file, or
\* raises and the except clause re-raises.
PL_save_cleaned_data ==
    /\ obj = "DataCleaningPipeline"
    /\ pass < MaxCalls
    /\ pass' = pass + 1
    /\ call' = Call("save_cleaned_data", "")
    /\ IF no_data(df_is_none)
       THEN /\ ret' = [status |-> "returned"]
            /\ UNCHANGED <<cleaning_report, output>>
       ELSE \/ /\ output' = to_csv(df, dtypes)
               /\ cleaning_report' = save_report(df, dtypes, cleaning_report)
               /\ ret' = [status |-> "returned"]
            \/ \E error \in WriteErrors :
               /\ output' = [output EXCEPT !.error = error]
               /\ ret' = [status |-> "raised", exc |-> error]
               /\ UNCHANGED cleaning_report
    /\ UNCHANGED <<loaded, obj, df, dtypes, validators, df_is_none, probe_vars, tools_data>>

NextPipe ==
    \/ PL_load_data
    \/ PL_display_info
    \/ PL_remove_duplicates
    \/ PL_handle_missing_values
    \/ PL_remove_outliers
    \/ PL_standardize_text
    \/ PL_convert_data_types
    \/ PL_rename_columns
    \/ PL_remove_columns
    \/ PL_reset_index
    \/ PL_save_cleaned_data

SpecPipe == InitPipe /\ [][NextPipe]_vars

--------------------------------------------------------------------------
(* Properties of the pipeline *)

\* C11: a handle_missing_values call on a loaded table whose strategy is not
\* one of the supported ones raises, and leaves the table and the cleaning
\* report as they were.
C11_UnknownStrategyAborts ==
    [][(/\ obj = "DataCleaningPipeline"
        /\ ~df_is_none
        /\ call'.name = "handle_missing_values"
        /\ call'.strategy \notin MissingStrategies)
       => (/\ ret'.status = "raised"
           /\ df' = df
           /\ cleaning_report' = cleaning_report)]_vars

\* The table is left alone by an unknown strategy (the report is not).
UnknownStrategyKeepsTable ==
    [][(/\ obj = "DataCleaningPipeline"
        /\ ~df_is_none
        /\ call'.name = "handle_missing_values"
        /\ call'.strategy \notin MissingStrategies)
       => df' = df]_vars

--------------------------------------------------------------------------
(* MissingDataHandler *)

\* self.df.isna().any(axis=1) as the set of positions it selects.
any_missing(t) ==
    {i \in DOMAIN t : \E c \in DOMAIN t[i].rec : isna(t[i].rec[c])}

\* find_missing()
find_missing(t) == Mask(t, any_missing(t))

\* MissingDataHandler.flag_records()
flag_missing(t) ==
    MapRows(t, LAMBDA k, e :
        [idx |-> e.idx,
         rec |-> assign(e.rec, [has_missing |-> BoolV(k \in any_missing(t))])])

\* The drop branch of handle_missing_records.
drop_missing(t, missing) ==
    [status |-> "returned",
     cleaned |-> reset_index(Mask(t, DOMAIN t \ isin(t, Index(missing)))),
     rejected |-> missing]

Unknown == StrV(<<"Unknown">>)

\* The numeric fill value without the default for an all-missing column.
numeric_fill_no_default(med) == med

\* fill_value = cleaned[col].median(); 0 if that is NaN (a float column
\* takes it as 0.0).
numeric_fill(med) == IF isna(med) THEN FloatV(0) ELSE med

\* fill_value = mode_vals[0] if len(mode_vals) > 0 else "Unknown"
text_fill(mode_vals) == IF mode_vals = {} THEN Unknown ELSE first_of(mode_vals)

\* The fill value of one column: is_numeric_dtype decides between the two.
column_fill(cells) ==
    IF dtype(cells) # "object" THEN numeric_fill(median(cells))
    ELSE text_fill(mode(cells))

\* The fill branch of handle_missing_records.
fill_missing(t) ==
    [status |-> "returned",
     cleaned |->
        MapRows(t, LAMBDA k, e :
            [idx |-> e.idx,
             rec |-> [c \in DOMAIN e.rec |->
                        fill_cell(e.rec[c], column_fill(Column(t, c)))]])]

\* handle_missing_records(drop)
handle_missing_records(t, drop_flag) ==
    IF drop_flag THEN drop_missing(t, find_missing(t)) ELSE fill_missing(t)

--------------------------------------------------------------------------
(* Inputs of the missing-data runs *)

MissingRows ==
    {[c \in PipeColumns |-> IF c = "Tool Name" THEN nm ELSE rv] :
        nm \in {NaN, NoneV, NameA, NameB}, rv \in {NaN, IntV(10), IntV(20)}}

\* MissingDataHandler(df)
InitMissing ==
    /\ loaded \in {RangeIndex(rows) : rows \in SeqsUpTo(MissingRows, MaxRows)}
    /\ obj = "MissingDataHandler"
    /\ df = loaded
    /\ df_is_none = FALSE
    /\ call = NoCall
    /\ ret = NoRet
    /\ pass = 0
    /\ NoProbes
    /\ output = NoOutput
    /\ tools_data = <<>>
    /\ dtypes = <<>>
    /\ validators = NotInstalled
    /\ cleaning_report = NoReport

\* handler.find_missing()
MH_find_missing ==
    /\ obj = "MissingDataHandler"
    /\ call = NoCall
    /\ call' = Call("find_missing", "")
    /\ ret' = [status |-> "returned", results |-> find_missing(df)]
    /\ UNCHANGED <<loaded, obj, df, pass, validators, cleaning_report, df_is_none, probe_vars, output, dtypes, tools_data>>

\* handler.flag_records()
MH_flag_records ==
    /\ obj = "MissingDataHandler"
    /\ call = NoCall
    /\ call' = Call("flag_records", "")
    /\ ret' = [status |-> "returned", flagged |-> flag_missing(df)]
    /\ UNCHANGED <<loaded, obj, df, pass, validators, cleaning_report, df_is_none, probe_vars, output, dtypes, tools_data>>

\* handler.handle_missing_records(drop): the call records drop=True as the
\* strategy "drop" and drop=False as "fill".
MH_handle_missing_records ==
    /\ obj = "MissingDataHandler"
    /\ call = NoCall
    /\ \E drop_flag \in BOOLEAN :
          /\ call' = Call("handle_missing_records",
                          IF drop_flag THEN "drop" ELSE "fill")
          /\ ret' = handle_missing_records(df, drop_flag)
    /\ UNCHANGED <<loaded, obj, df, pass, validators, cleaning_report, df_is_none, probe_vars, output, dtypes, tools_data>>

NextMissing == MH_find_missing \/ MH_flag_records \/ MH_handle_missing_records

SpecMissing == InitMissing /\ [][NextMissing]_vars

--------------------------------------------------------------------------
(* Properties of MissingDataHandler *)

\* The non-missing numbers of a column split evenly around x.
SplitsEvenly(cells, x) ==
    /\ 2 * Cardinality({i \in Present(cells) : cells[i].n < x.n})
          <= Cardinality(Present(cells))
    /\ 2 * Cardinality({i \in Present(cells) : cells[i].n > x.n})
          <= Cardinality(Present(cells))

\* v is the value the fill rule gives the missing cells of a column.
FillOf(cells, v) ==
    IF dtype(cells) # "object"
    THEN IF Present(cells) = {} THEN v.kind = "float" /\ v.n = 0
         ELSE v = median(cells) /\ SplitsEvenly(cells, v)
    ELSE IF Present(cells) = {} THEN v = Unknown
         ELSE /\ \E i \in Present(cells) : cells[i] = v
              /\ \A j \in Present(cells) :
                    occurrences(cells, cells[j]) <= occurrences(cells, v)

\* C17: handle_missing_records(drop=False) keeps every record and every
\* non-missing cell, fills the missing cells of a numeric column with the
\* median of its non-missing values (0 when there is none) and those of a
\* non-numeric column with its most frequent non-missing value ("Unknown"
\* when there is none), and leaves no cell missing.
C17_FillPerColumn ==
    (call = Call("handle_missing_records", "fill")) =>
        /\ ret.status = "returned"
        /\ Len(ret.cleaned) = Len(df)
        /\ \A i \in DOMAIN df :
              /\ ret.cleaned[i].idx = df[i].idx
              /\ \A c \in PipeColumns :
                    /\ notna(ret.cleaned[i].rec[c])
                    /\ notna(df[i].rec[c]) =>
                          ret.cleaned[i].rec[c] = df[i].rec[c]
                    /\ isna(df[i].rec[c]) =>
                          FillOf(Column(df, c), ret.cleaned[i].rec[c])

C17_Witness ==
    /\ call = Call("handle_missing_records", "fill")
    /\ ret.status = "returned"
    /\ Len(df) = 3
    /\ df[1].rec["review_count"] = IntV(10)
    /\ df[2].rec["review_count"] = NaN
    /\ df[3].rec["review_count"] = IntV(20)
    /\ ret.cleaned[2].rec["review_count"] = FloatV(150)
    /\ \A i \in DOMAIN df : df[i].rec["Tool Name"] = NoneV
    /\ ret.cleaned[1].rec["Tool Name"] = Unknown

\* All-missing numeric columns are filled with zero.
AllMissingFilledWithZero ==
    (/\ call = Call("handle_missing_records", "fill")
     /\ Len(df) = 2
     /\ \A i \in DOMAIN df : df[i].rec["review_count"] = NaN)
        => \A i \in DOMAIN df : ret.cleaned[i].rec["review_count"] = FloatV(0)

\* The positions of df with a missing cell in one of the fields of E.
MissingIn(E) == {i \in DOMAIN df : \E c \in E : isna(df[i].rec[c])}

\* ret is the split of df by the positions in S.
DropSplit(S) ==
    /\ ret.rejected = Mask(df, S)
    /\ Recs(ret.cleaned) = Recs(Mask(df, DOMAIN df \ S))

\* C18: whichever non-empty set E of fields the caller regards as
\* essential, handle_missing_records(drop=True) removes exactly the records
\* with a field of E missing, keeps the others and returns the removed
\* ones.
C18_DropEssentialOnly ==
    (call = Call("handle_missing_records", "drop")) =>
        /\ ret.status = "returned"
        /\ \A E \in SUBSET PipeColumns \ {{}} : DropSplit(MissingIn(E))

\* With every field essential the split is the stated one.
DropAnyMissing ==
    (call = Call("handle_missing_records", "drop")) =>
        ret.status = "returned" /\ DropSplit(MissingIn(PipeColumns))

--------------------------------------------------------------------------
(* DescriptionValidator *)

description_col == "Description"
min_length == 10
min_words == 3

\* self.meaningless
meaningless ==
    <<<<"n", "/", "a">>,
      <<"n", "a">>,
      <<"n", "o", "n", "e">>,
      <<"n", "u", "l", "l">>,
      <<"t", "b", "d">>,
      <<"t", "b", "a">>,
      <<"c", "o", "m", "i", "n", "g", " ", "s", "o", "o", "n">>,
      <<"n", "o", " ", "d", "e", "s", "c", "r", "i", "p", "t", "i", "o", "n">>,
      <<"n", "o", "t", " ", "a", "v", "a", "i", "l", "a", "b", "l", "e">>,
      <<"s", "e", "e", " ", "w", "e", "b", "s", "i", "t", "e">>,
      <<"l", "o", "r", "e", "m", " ", "i", "p", "s", "u", "m">>>>

\* pattern in text
contains(text, pattern) ==
    \E i \in 0..(Len(text) - Len(pattern)) :
        SubSeq(text, i + 1, i + Len(pattern)) = pattern

\* len(text.split()): the number of maximal runs of non-whitespace.
split_count(cs) ==
    Cardinality({i \in DOMAIN cs :
        cs[i] \notin Whitespace /\ (i = 1 \/ cs[i - 1] \in Whitespace)})

\* ', '.join(reasons)
join(reasons) ==
    LET F[k \in 0..Len(reasons)] ==
            IF k = 0 THEN <<>>
            ELSE IF k = 1 THEN <<reasons[1]>>
            ELSE F[k - 1] \o <<", ", reasons[k]>>
    IN F[Len(reasons)]

\* The three tests of get_flag_reason as an if / elif chain.
reasons_first_only(text_str, text_lower) ==
    IF Len(text_str) < min_length THEN <<"too_short">>
    ELSE IF split_count(text_str) < min_words THEN <<"few_words">>
    ELSE IF \E k \in DOMAIN meaningless : contains(text_lower, meaningless[k])
    THEN <<"meaningless">>
    ELSE <<>>

\* reasons after the three tests of get_flag_reason.
reasons_of(text_str, text_lower) ==
    (IF Len(text_str) < min_length THEN <<"too_short">> ELSE <<>>)
    \o (IF split_count(text_str) < min_words THEN <<"few_words">> ELSE <<>>)
    \o (IF \E k \in DOMAIN meaningless : contains(text_lower, meaningless[k])
        THEN <<"meaningless">> ELSE <<>>)

\* return ', '.join(reasons) if reasons else None
flag_of(reasons) == IF reasons = <<>> THEN NoneV ELSE StrV(join(reasons))

reason_for(text_str) == flag_of(reasons_of(text_str, lower_str(text_str)))

\* get_flag_reason(text); str(text) of a str is the str itself.
get_flag_reason(text) ==
    IF isna(text) THEN Label("missing") ELSE reason_for(strip(text.s))

\* flag_descriptions()
flag_descriptions(t) ==
    MapRows(t, LAMBDA k, e :
        [idx |-> e.idx,
         rec |-> assign(e.rec,
                    [desc_flag |-> get_flag_reason(e.rec[description_col])])])

\* The reasons a flag splits into: flag.split(', ').
split_reasons(flag) == {flag.s[i] : i \in DOMAIN flag.s} \ {", "}

\* desc_flag.dropna().str.split(', ').explode().value_counts(): how many
\* flags carry each reason that occurs.
value_counts(flagged) ==
    LET flags == {i \in DOMAIN flagged : notna(flagged[i].rec.desc_flag)}
        seen == UNION {split_reasons(flagged[i].rec.desc_flag) : i \in flags}
    IN [r \in seen |->
           Cardinality({i \in flags : r \in split_reasons(flagged[i].rec.desc_flag)})]

\* get_summary()
description_summary(t) == value_counts(flag_descriptions(t))

--------------------------------------------------------------------------
(* Inputs of the description runs *)

DescEmpty == StrV(<<>>)
DescBlank == StrV(<<" ", " ">>)
DescTbd == StrV(<<"t", "b", "d">>)
DescGreat == StrV(<<"G", "r", "e", "a", "t", " ", "t", "o", "o", "l", ".">>)
DescAbc == StrV(<<"a", " ", "b", " ", "c">>)
DescEditor == StrV(<<"F", "a", "s", "t", " ", "i", "m", "a", "g", "e", " ", "e", "d", "i", "t", "o", "r">>)
DescAnalysis == StrV(<<"A", " ", "t", "o", "o", "l", " ", "f", "o", "r", " ", "a", "n", "a", "l", "y", "s", "i", "s">>)

DescCells == {NaN, DescEmpty, DescBlank, DescTbd, DescGreat, DescAbc, DescEditor, DescAnalysis}

DescRows ==
    {[c \in {"Tool Name", description_col} |->
        IF c = "Tool Name" THEN NameA ELSE d] : d \in DescCells}

\* DescriptionValidator(df, min_length=10, min_words=3)
InitDesc ==
    /\ loaded \in {RangeIndex(rows) : rows \in SeqsUpTo(DescRows, MaxRows)}
    /\ obj = "DescriptionValidator"
    /\ df = loaded
    /\ df_is_none = FALSE
    /\ call = NoCall
    /\ ret = NoRet
    /\ pass = 0
    /\ NoProbes
    /\ output = NoOutput
    /\ tools_data = <<>>
    /\ dtypes = <<>>
    /\ validators = NotInstalled
    /\ cleaning_report = NoReport

\* validator.flag_descriptions()
DV_flag_descriptions ==
    /\ obj = "DescriptionValidator"
    /\ call = NoCall
    /\ call' = Call("flag_descriptions", "")
    /\ ret' = [status |-> "returned", flagged |-> flag_descriptions(df)]
    /\ UNCHANGED <<loaded, obj, df, pass, validators, cleaning_report, df_is_none, probe_vars, output, dtypes, tools_data>>

\* validator.get_summary()
DV_get_summary ==
    /\ obj = "DescriptionValidator"
    /\ call = NoCall
    /\ call' = Call("get_summary", "")
    /\ ret' = [status |-> "returned", reasons |-> description_summary(df)]
    /\ UNCHANGED <<loaded, obj, df, pass, validators, cleaning_report, df_is_none, probe_vars, output, dtypes, tools_data>>

NextDesc == DV_flag_descriptions \/ DV_get_summary

SpecDesc == InitDesc /\ [][NextDesc]_vars

--------------------------------------------------------------------------
(* Properties of DescriptionValidator *)

\* The reasons that apply to a present description.
TooShort(text) == Len(strip(text.s)) < min_length
FewWords(text) == split_count(text.s) < min_words
Meaningless(text) ==
    \E k \in DOMAIN meaningless : contains(lower_str(text.s), meaningless[k])

Applying(text) ==
    (IF TooShort(text) THEN {"too_short"} ELSE {})
    \cup (IF FewWords(text) THEN {"few_words"} ELSE {})
    \cup (IF Meaningless(text) THEN {"meaningless"} ELSE {})

\* The reasons a desc_flag cell carries (none for None).
Carried(flag) == IF isna(flag) THEN {} ELSE split_reasons(flag)

FlagOf(i) == ret.flagged[i].rec.desc_flag

\* C19: for a present description, the flag carries exactly the reasons
\* among too_short, few_words and meaningless that apply to it, each once
\* and joined by ', ', and is None exactly when none applies; "tbd" carries
\* meaningless, "Great tool." carries few_words and not too_short.
C19_AllApplyingReasons ==
    Returned("flag_descriptions") =>
        \A i \in DOMAIN df :
            LET text == df[i].rec[description_col] IN
            notna(text) =>
                /\ Carried(FlagOf(i)) = Applying(text)
                /\ isna(FlagOf(i)) <=> Applying(text) = {}
                /\ notna(FlagOf(i)) =>
                      Len(FlagOf(i).s) = 2 * Cardinality(Applying(text)) - 1
                /\ text = DescTbd => "meaningless" \in Carried(FlagOf(i))
                /\ text = DescGreat =>
                      /\ "few_words" \in Carried(FlagOf(i))
                      /\ "too_short" \notin Carried(FlagOf(i))

C19_Witness ==
    /\ Returned("flag_descriptions")
    /\ \E i \in DOMAIN df :
          /\ df[i].rec[description_col] = DescTbd
          /\ FlagOf(i) = StrV(<<"too_short", ", ", "few_words", ", ", "meaningless">>)
    /\ \E i \in DOMAIN df :
          /\ df[i].rec[description_col] = DescGreat
          /\ FlagOf(i) = StrV(<<"few_words">>)
    /\ \E i \in DOMAIN df :
          /\ df[i].rec[description_col] = DescEditor
          /\ FlagOf(i) = NoneV

\* A description that is missing, empty or whitespace only.
Blank(text) == isna(text) \/ strip(text.s) = <<>>

\* C20: a description that is missing, the empty string or whitespace only
\* is flagged 'missing' and nothing else.
C20_BlankIsMissing ==
    Returned("flag_descriptions") =>
        \A i \in DOMAIN df :
            Blank(df[i].rec[description_col]) => FlagOf(i) = Label("missing")

\* A missing description is flagged 'missing' and nothing else.
MissingIsMissing ==
    Returned("flag_descriptions") =>
        \A i \in DOMAIN df :
            isna(df[i].rec[description_col]) => FlagOf(i) = Label("missing")

--------------------------------------------------------------------------
(* TextStandardizer *)

\* str.upper() on one character.
upper(c) ==
    IF \E i \in DOMAIN LowerSeq : LowerSeq[i] = c
    THEN UpperSeq[CHOOSE i \in DOMAIN LowerSeq : LowerSeq[i] = c]
    ELSE c

upper_str(cs) == [i \in DOMAIN cs |-> upper(cs[i])]

\* str.title(): a letter is upper-cased after a non-letter (or at the
\* start) and lower-cased after a letter.
title_str(cs) ==
    [i \in DOMAIN cs |->
        IF i = 1 \/ cs[i - 1] \notin Letters THEN upper(cs[i]) ELSE lower(cs[i])]

\* str.capitalize(): the first character upper-cased, all others
\* lower-cased.
capitalize(cs) ==
    [i \in DOMAIN cs |-> IF i = 1 THEN upper(cs[i]) ELSE lower(cs[i])]

\* ' '.join(text.split()).strip(): each run of whitespace becomes one space,
\* none is left at either end.
collapse(cs) ==
    LET F[k \in 0..Len(cs)] ==
            IF k = 0 THEN <<>>
            ELSE IF cs[k] \notin Whitespace THEN Append(F[k - 1], cs[k])
            ELSE IF F[k - 1] = <<>> \/ F[k - 1][Len(F[k - 1])] = " " THEN F[k - 1]
            ELSE Append(F[k - 1], " ")
    IN strip(F[Len(cs)])

\* clean_text(text); the utf-8 round trip keeps every character written
\* here.
clean_text(text) ==
    IF isna(text) \/ text.kind # "str" THEN text ELSE StrV(collapse(text.s))

\* self.df.select_dtypes(include=['object']).columns, for text_columns=None.
object_columns(t) ==
    IF t = <<>> THEN {}
    ELSE {c \in DOMAIN t[1].rec : dtype(Column(t, c)) = "object"}

\* The default case_rules of standardize_all.
default_case_rules ==
    [c \in {"Tool Name", "Category", "Company", "Pricing Model", "Target Users",
            "Primary Function", "Description"} |->
        IF c \in {"Primary Function", "Description"} THEN "sentence" ELSE "title"]

\* The .str accessor raises on a column that holds no str at all.
str_accessor_exc(cells) ==
    IF cells # <<>> /\ dtype(cells) # "object" THEN "AttributeError" ELSE "none"

\* 'sentence' keeping the characters after the first as they are.
apply_case_keep_rest(cell, case_type) ==
    IF cell.kind # "str" THEN cell
    ELSE CASE case_type = "title" -> StrV(title_str(cell.s))
           [] case_type = "lower" -> StrV(lower_str(cell.s))
           [] case_type = "upper" -> StrV(upper_str(cell.s))
           [] case_type = "sentence" ->
                StrV([i \in DOMAIN cell.s |->
                        IF i = 1 THEN upper(cell.s[i]) ELSE cell.s[i]])
           [] OTHER -> cell

\* One cell under the case rule of its column.
apply_case(cell, case_type) ==
    IF cell.kind # "str" THEN cell
    ELSE CASE case_type = "title" -> StrV(title_str(cell.s))
           [] case_type = "lower" -> StrV(lower_str(cell.s))
           [] case_type = "upper" -> StrV(upper_str(cell.s))
           [] case_type = "sentence" -> StrV(capitalize(cell.s))
           [] OTHER -> cell

\* The columns whose rule goes through the .str accessor and raises.
raising_rules(t, case_rules) ==
    {c \in DOMAIN case_rules :
        /\ t # <<>>
        /\ c \in DOMAIN t[1].rec
        /\ case_rules[c] \in {"title", "lower", "upper"}
        /\ str_accessor_exc(Column(t, c)) # "none"}

\* The two loops of standardize_all on one row.
standardize_row(rec, text_cols, case_rules) ==
    [c \in DOMAIN rec |->
        IF c \in DOMAIN case_rules
        THEN apply_case(IF c \in text_cols THEN clean_text(rec[c]) ELSE rec[c],
                        case_rules[c])
        ELSE IF c \in text_cols THEN clean_text(rec[c]) ELSE rec[c]]

\* standardize_all(case_rules) with text_cols the object columns.
standardize_all(t, case_rules) ==
    IF raising_rules(t, case_rules) # {}
    THEN [status |-> "raised", exc |-> "AttributeError"]
    ELSE [status |-> "returned",
          standardized |->
             MapRows(t, LAMBDA k, e :
                 [idx |-> e.idx,
                  rec |-> standardize_row(e.rec, object_columns(t), case_rules)])]

\* (a != b) on two cells of object columns: NaN differs from everything,
\* itself included.
ne(a, b) == isna(a) \/ isna(b) \/ a # b

\* get_changes_summary(standardized_df): the changed count of each text
\* column that has one.
get_changes_summary(t, standardized) ==
    LET changed(c) ==
            Cardinality({i \in DOMAIN t : ne(t[i].rec[c], standardized[i].rec[c])})
    IN [c \in {c \in object_columns(t) : changed(c) > 0} |-> changed(c)]

--------------------------------------------------------------------------
(* Inputs of the text runs *)

TextSpaced == StrV(<<"a", "b", " ", " ", "C", "D">>)
TextXy == StrV(<<"X", "y">>)
TextPadded == StrV(<<" ", "a">>)
NameMixed == StrV(<<"a", "B">>)

TextRows ==
    {[c \in {"Tool Name", "Description"} |-> IF c = "Tool Name" THEN n ELSE d] :
        n \in {NaN, NameMixed}, d \in {NaN, TextSpaced, TextXy, TextPadded}}

\* The case_rules arguments tried: None, {}, and {'Description': rule}.
CaseRuleChoices == {"default", "empty", "title", "lower", "upper", "sentence"}

case_rules_of(choice) ==
    IF choice = "default" THEN default_case_rules
    ELSE IF choice = "empty" THEN <<>>
    ELSE [c \in {"Description"} |-> choice]

\* TextStandardizer(df)
InitText ==
    /\ loaded \in {RangeIndex(rows) : rows \in SeqsUpTo(TextRows, MaxRows)}
    /\ obj = "TextStandardizer"
    /\ df = loaded
    /\ df_is_none = FALSE
    /\ call = NoCall
    /\ ret = NoRet
    /\ pass = 0
    /\ NoProbes
    /\ output = NoOutput
    /\ tools_data = <<>>
    /\ dtypes = <<>>
    /\ validators = NotInstalled
    /\ cleaning_report = NoReport

\* standardizer.standardize_all(case_rules)
TS_standardize_all ==
    /\ obj = "TextStandardizer"
    /\ call = NoCall
    /\ \E choice \in CaseRuleChoices :
        /\ call' = Call("standardize_all", choice)
        /\ ret' = standardize_all(df, case_rules_of(choice))
    /\ UNCHANGED <<loaded, obj, df, pass, validators, cleaning_report, df_is_none, probe_vars, output, dtypes, tools_data>>

\* standardizer.get_changes_summary(standardized_df), given the table
\* standardize_all returned or an unchanged copy of the table.
TS_get_changes_summary ==
    /\ obj = "TextStandardizer"
    /\ \/ /\ call.name = "standardize_all"
          /\ ret.status = "returned"
          /\ call' = Call("get_changes_summary", "standardized")
          /\ ret' = [status |-> "returned",
                     changes |-> get_changes_summary(df, ret.standardized)]
       \/ /\ call = NoCall
          /\ call' = Call("get_changes_summary", "unchanged")
          /\ ret' = [status |-> "returned", changes |-> get_changes_summary(df, df)]
    /\ UNCHANGED <<loaded, obj, df, pass, validators, cleaning_report, df_is_none, probe_vars, output, dtypes, tools_data>>

NextText == TS_standardize_all \/ TS_get_changes_summary

SpecText == InitText /\ [][NextText]_vars

--------------------------------------------------------------------------
(* Properties of TextStandardizer *)

\* The rule of a column under the mapping of the call ("" for none).
RuleOf(c) ==
    IF c \in DOMAIN case_rules_of(call.strategy)
    THEN case_rules_of(call.strategy)[c] ELSE ""

\* A value whitespace-normalized, then cased with 'sentence' touching the
\* first character only.
NormalizedThenCased(cell, rule) == apply_case_keep_rest(clean_text(cell), rule)

\* The same with 'sentence' as str.capitalize().
NormalizedThenCapitalized(cell, rule) == apply_case(clean_text(cell), rule)

StandardizedAs(want(_, _)) ==
    /\ ret.status = "returned"
    /\ Len(ret.standardized) = Len(df)
    /\ \A i \in DOMAIN df : \A c \in DOMAIN df[i].rec :
          ret.standardized[i].rec[c] = want(df[i].rec[c], RuleOf(c))

\* C21: standardize_all returns every value whitespace-normalized and then
\* cased by the rule of its field, 'sentence' upper-casing the first letter and
\* leaving the other characters as they were; a field without a rule keeps
\* its normalized value and a missing value stays missing.
C21_NormalizedThenCased ==
    call.name = "standardize_all" => StandardizedAs(NormalizedThenCased)

\* What the code does whenever standardize_all returns: the same with
\* 'sentence' lower-casing every character after the first.
SentenceLowersTheRest ==
    (call.name = "standardize_all" /\ ret.status = "returned")
        => StandardizedAs(NormalizedThenCapitalized)

\* standardize_all raises exactly when a .str rule meets a column of a
\* non-empty table that holds no text.
RaisesOnTextlessColumn ==
    call.name = "standardize_all"
        => (ret.status = "raised" <=> raising_rules(df, case_rules_of(call.strategy)) # {})

\* The table get_changes_summary was given.
Given == IF call'.strategy = "unchanged" THEN df ELSE ret.standardized

\* Two values differ; a value missing on both sides does not.
Differs(a, b) == ~(isna(a) /\ isna(b)) /\ a # b

ChangesOf(r, c) == IF c \in DOMAIN r.changes THEN r.changes[c] ELSE 0

\* C22: get_changes_summary reports for each text field the number of
\* records whose standardized value differs from the value before; a value
\* that is the same, or missing both before and after, is not counted.
C22_CountsDifferingRecords ==
    [][call'.name = "get_changes_summary"
        => \A c \in object_columns(df) :
              ChangesOf(ret', c) =
                Cardinality({i \in DOMAIN df :
                                Differs(df[i].rec[c], Given[i].rec[c])})]_vars

\* What the code counts: the differing records and every record whose value
\* is missing in either table.
CountsMissingAsChanged ==
    [][call'.name = "get_changes_summary"
        => \A c \in object_columns(df) :
              ChangesOf(ret', c) =
                Cardinality({i \in DOMAIN df :
                                \/ Differs(df[i].rec[c], Given[i].rec[c])
                                \/ isna(df[i].rec[c])})]_vars

--------------------------------------------------------------------------
(* URLValidator.check_reachability *)

\* What requests.head may do: answer with a status code, or raise.
HeadResponses ==
    {[kind |-> "status", code |-> 200], [kind |-> "status", code |-> 404],
     [kind |-> "raised", code |-> 0]}

NoResponse == [kind |-> "none", code |-> 0]

\* check_url letting any status code count as reachable.
check_url_any_status(url, response) ==
    IF isna(url) THEN NoneV
    ELSE IF url.kind # "str" THEN BoolV(FALSE)
    ELSE BoolV(response.kind = "status")

\* check_url(url) given what requests.head does.  url.strip() of a value
\* that is no str raises inside the try; the bare except turns every
\* exception into False.
check_url(url, response) ==
    IF isna(url) THEN NoneV
    ELSE IF url.kind # "str" THEN BoolV(FALSE)
    ELSE IF response.kind = "status" THEN BoolV(response.code < 400)
    ELSE BoolV(FALSE)

\* The URL the request goes to.
requested(url) ==
    IF url.kind = "str" THEN with_scheme(strip(url.s)) ELSE <<>>

\* dropna() without unique().
dropna_cells(cells) ==
    LET F[k \in 0..Len(cells)] ==
            IF k = 0 THEN <<>>
            ELSE IF isna(cells[k]) THEN F[k - 1]
            ELSE Append(F[k - 1], cells[k])
    IN F[Len(cells)]

\* self.df[self.url_column].dropna().unique(): the values present, each once,
\* in the order of their first occurrence.
unique(cells) ==
    LET F[k \in 0..Len(cells)] ==
            IF k = 0 THEN <<>>
            ELSE IF isna(cells[k]) \/ \E j \in 1..(k - 1) : cells[j] = cells[k]
                 THEN F[k - 1]
            ELSE Append(F[k - 1], cells[k])
    IN F[Len(cells)]

\* executor.submit(check_url, url): a work item waiting in the queue.
submitted(url) ==
    [url |-> url, state |-> "queued", response |-> NoResponse,
     result |-> NoneV, arrival |-> 0]

\* The futures as_completed has handed over so far; arrival numbers them.
yielded(fs) == {k \in DOMAIN fs : fs[k].arrival > 0}

\* The work items a worker thread is running.
in_flight(fs) == {k \in DOMAIN fs : fs[k].state = "running"}

\* reachability[url] = future.result(), keyed by the order of arrival.
store_by_arrival(d, fs, k) ==
    LET url == fs[Cardinality(yielded(fs)) + 1].url
    IN [u \in DOMAIN d \cup {url} |-> IF u = url THEN fs[k].result ELSE d[u]]

\* url = futures[future]; reachability[url] = future.result()
store(d, fs, k) ==
    LET url == fs[k].url
    IN [u \in DOMAIN d \cup {url} |-> IF u = url THEN fs[k].result ELSE d[u]]

\* Series.map(reachability) on one cell: NaN for a key the dict lacks.
map_dict(d, cell) ==
    IF cell \in DOMAIN d THEN d[cell] ELSE NaN

\* results = self.df.copy(); results['url_reachable'] = ....map(reachability)
with_reachable(t, d) ==
    MapRows(t, LAMBDA k, e :
        [idx |-> e.idx,
         rec |-> assign(e.rec, [c \in {"url_reachable"} |->
                                   map_dict(d, e.rec[url_column])])])

\* The cells of the Website column of the input tables.
ReachCells == {NaN, StrV(UrlPlain), StrV(UrlPadded), StrV(UrlLocal)}

ReachRows ==
    {[c \in {"Tool Name", "Website"} |-> IF c = "Tool Name" THEN NameA ELSE u] :
        u \in ReachCells}

\* Largest number of rows of a table given to check_reachability.
MaxReachRows == 4

\* The max_workers arguments tried.
WorkerChoices == {1, 2}

\* URLValidator(df)
InitReach ==
    /\ loaded \in {RangeIndex(rows) : rows \in SeqsUpTo(ReachRows, MaxReachRows)}
    /\ obj = "URLValidator"
    /\ df = loaded
    /\ df_is_none = FALSE
    /\ call = NoCall
    /\ ret = NoRet
    /\ pass = 0
    /\ NoProbes
    /\ output = NoOutput
    /\ tools_data = <<>>
    /\ dtypes = <<>>
    /\ validators = NotInstalled
    /\ cleaning_report = NoReport

\* validator.check_reachability(timeout, max_workers) is entered: the dict
\* is empty and the executor is created.
UV_check_reachability ==
    /\ obj = "URLValidator"
    /\ call = NoCall
    /\ pc = "idle"
    /\ call' = Call("check_reachability", "")
    /\ \E w \in WorkerChoices : max_workers' = w
    /\ pc' = "submit"
    /\ futures' = <<>>
    /\ reachability' = <<>>
    /\ UNCHANGED <<loaded, obj, df, ret, pass, validators, cleaning_report,
                   df_is_none, output, dtypes, tools_data>>

\* The calling thread submits the next URL, or has submitted them all and
\* goes on to as_completed.
CR_submit ==
    /\ pc = "submit"
    /\ IF Len(futures) < Len(unique(Column(df, url_column)))
       THEN /\ futures' = Append(futures,
                    submitted(unique(Column(df, url_column))[Len(futures) + 1]))
            /\ pc' = pc
       ELSE /\ pc' = "collect"
            /\ futures' = futures
    /\ UNCHANGED <<loaded, obj, df, call, ret, pass, validators, cleaning_report,
                   df_is_none, reachability, max_workers, output, dtypes, tools_data>>

\* A worker thread of the pool takes the oldest waiting work item; the pool
\* has max_workers threads.
W_start ==
    /\ pc \in {"submit", "collect"}
    /\ Cardinality(in_flight(futures)) < max_workers
    /\ \E k \in DOMAIN futures :
        /\ futures[k].state = "queued"
        /\ \A j \in 1..(k - 1) : futures[j].state # "queued"
        /\ futures' = [futures EXCEPT ![k].state = "running"]
    /\ UNCHANGED <<loaded, obj, df, call, ret, pass, validators, cleaning_report,
                   df_is_none, reachability, pc, max_workers, output, dtypes, tools_data>>

\* A running check_url ends: requests.head answered, timed out or failed.
W_finish ==
    /\ \E k \in in_flight(futures) : \E response \in HeadResponses :
        futures' = [futures EXCEPT
                       ![k].state = "finished",
                       ![k].response = IF futures[k].url.kind = "str"
                                       THEN response ELSE NoResponse,
                       ![k].result = check_url(futures[k].url, response)]
    /\ UNCHANGED <<loaded, obj, df, call, ret, pass, validators, cleaning_report,
                   df_is_none, reachability, pc, max_workers, output, dtypes, tools_data>>

\* as_completed hands the calling thread a finished future; its result goes
\* into the dict under its URL.
CR_collect ==
    /\ pc = "collect"
    /\ \E k \in DOMAIN futures :
        /\ futures[k].state = "finished"
        /\ k \notin yielded(futures)
        /\ reachability' = store(reachability, futures, k)
        /\ futures' = [futures EXCEPT
                          ![k].arrival = Cardinality(yielded(futures)) + 1]
    /\ UNCHANGED <<loaded, obj, df, call, ret, pass, validators, cleaning_report,
                   df_is_none, pc, max_workers, output, dtypes, tools_data>>

\* Every future was handed over: the executor shuts down and the annotated
\* copy is returned.
CR_return ==
    /\ pc = "collect"
    /\ yielded(futures) = DOMAIN futures
    /\ pc' = "done"
    /\ ret' = [status |-> "returned", results |-> with_reachable(df, reachability)]
    /\ UNCHANGED <<loaded, obj, df, call, pass, validators, cleaning_report,
                   df_is_none, futures, reachability, max_workers, output, dtypes, tools_data>>

NextReach ==
    UV_check_reachability \/ CR_submit \/ W_start \/ W_finish \/ CR_collect \/ CR_return

SpecReach == InitReach /\ [][NextReach]_vars

\* The threads of the pool and the calling thread keep running.
SpecReachFair == SpecReach /\ WF_vars(NextReach)

--------------------------------------------------------------------------
(* Properties of check_reachability *)

\* The URL of the record at position i.
UrlAt(i) == df[i].rec[url_column]

\* The annotation the returned table carries at position i.
ReachableAt(i) == ret.results[i].rec.url_reachable

\* The probe went through: the request was answered with a status below 400.
Reached(f) ==
    f.url.kind = "str" /\ f.response.kind = "status" /\ f.response.code < 400

\* C23: a probe that fails (exception, timeout, status >= 400) makes its own
\* URL not reachable and nothing else: the call never raises, it can always
\* go on until it returns, and every record with a URL is annotated with what
\* the probe of its own URL found.
C23_ProbeFailureIsLocal ==
    call.name = "check_reachability" =>
        /\ ret.status # "raised"
        /\ pc = "done" \/ ENABLED NextReach
        /\ pc = "done" =>
              \A i \in DOMAIN df :
                 notna(UrlAt(i)) =>
                    \E k \in DOMAIN futures :
                       /\ futures[k].url = UrlAt(i)
                       /\ ReachableAt(i) = BoolV(Reached(futures[k]))

\* A run has returned in which one probe raised, one got a 404 and one went
\* through.
C23_Witness ==
    /\ pc = "done"
    /\ \E i, j, k \in DOMAIN futures :
          /\ futures[i].response.kind = "raised"
          /\ futures[j].response.code = 404
          /\ futures[k].response.code = 200
    /\ \E i \in DOMAIN df : ReachableAt(i) = BoolV(TRUE)
    /\ \E i \in DOMAIN df : ReachableAt(i) = BoolV(FALSE)

\* Under fair scheduling of the threads the call returns.
CheckReturns == <>(pc = "done")

\* C24: whatever the order in which the probes complete, the returned table
\* has the records of the input in their order with their values unchanged,
\* each annotated with the outcome of the probe of its URL and a record
\* without URL with none.
C24_KeyedByUrl ==
    pc = "done" =>
        /\ ret.status = "returned"
        /\ Len(ret.results) = Len(df)
        /\ \A i \in DOMAIN df :
              /\ ret.results[i].idx = df[i].idx
              /\ DOMAIN ret.results[i].rec = DOMAIN df[i].rec \cup {"url_reachable"}
              /\ \A c \in DOMAIN df[i].rec : ret.results[i].rec[c] = df[i].rec[c]
              /\ isna(UrlAt(i)) => ReachableAt(i) = NaN
              /\ notna(UrlAt(i)) =>
                    \E k \in DOMAIN futures :
                       /\ futures[k].url = UrlAt(i)
                       /\ ReachableAt(i) = futures[k].result

\* A run has returned whose probes completed in the reverse of the order of
\* submission with different outcomes, two records sharing a URL and one
\* having none.
C24_Witness ==
    /\ pc = "done"
    /\ \E j, k \in DOMAIN futures :
          /\ j < k
          /\ futures[j].arrival > futures[k].arrival
          /\ futures[j].result # futures[k].result
    /\ \E i, j \in DOMAIN df : i # j /\ notna(UrlAt(i)) /\ UrlAt(i) = UrlAt(j)
    /\ \E i \in DOMAIN df : isna(UrlAt(i))

\* C28: one probe is dispatched per distinct URL present in the table, none
\* for anything else, and at most max_workers probes are in flight.
C28_OneProbePerUrl ==
    call.name = "check_reachability" =>
        /\ \A j, k \in DOMAIN futures : futures[j].url = futures[k].url => j = k
        /\ \A k \in DOMAIN futures :
              notna(futures[k].url) /\ \E i \in DOMAIN df : UrlAt(i) = futures[k].url
        /\ Cardinality(in_flight(futures)) <= max_workers
        /\ pc \in {"collect", "done"} =>
              \A i \in DOMAIN df :
                 notna(UrlAt(i)) => \E k \in DOMAIN futures : futures[k].url = UrlAt(i)
        /\ pc = "done" => \A k \in DOMAIN futures : futures[k].state = "finished"

\* The pool is full while a probe waits, one probe has reported a dead URL,
\* and two records share a URL.
C28_Witness ==
    /\ Cardinality(in_flight(futures)) = max_workers
    /\ \E k \in DOMAIN futures : futures[k].state = "queued"
    /\ \E k \in DOMAIN futures : futures[k].result = BoolV(FALSE)
    /\ \E i, j \in DOMAIN df : i # j /\ notna(UrlAt(i)) /\ UrlAt(i) = UrlAt(j)

\* A probe that has ended is not run again, and its outcome stays.
ProbedOnce ==
    [][\A k \in DOMAIN futures :
          futures[k].state = "finished"
              => /\ k \in DOMAIN futures'
                 /\ futures'[k].state = "finished"
                 /\ futures'[k].result = futures[k].result]_vars

--------------------------------------------------------------------------
(* save_cleaned_data of data_validation_pipeline.py *)

\* The exceptions tried for to_csv: one that is an IOError (OSError) and one
\* that is not.
SaveErrors == {"PermissionError", "UnicodeEncodeError"}
IOErrors == {"PermissionError"}

\* except IOError as e: logger.error(...): the function ends normally; any
\* other exception leaves it.
save_failed(error) ==
    IF error \in IOErrors THEN [status |-> "returned"]
    ELSE [status |-> "raised", exc |-> error]

\* The table handed to save_cleaned_data(data, filename).
InitSave ==
    /\ loaded \in PipeTables
    /\ obj = "data_validation_pipeline"
    /\ df = loaded
    /\ df_is_none = FALSE
    /\ call = NoCall
    /\ ret = NoRet
    /\ pass = 0
    /\ NoProbes
    /\ output = NoOutput
    /\ tools_data = <<>>
    /\ dtypes = read_csv_dtypes(loaded, PipeColumnOrder)
    /\ validators = NotInstalled
    /\ cleaning_report = NoReport

\* save_cleaned_data(data, filename): to_csv writes the file, or raises.
VP_save_cleaned_data ==
    /\ obj = "data_validation_pipeline"
    /\ call = NoCall
    /\ call' = Call("save_cleaned_data", "")
    /\ \/ /\ output' = to_csv(df, dtypes)
          /\ ret' = [status |-> "returned"]
       \/ \E error \in SaveErrors :
          /\ output' = [output EXCEPT !.error = error]
          /\ ret' = save_failed(error)
    /\ UNCHANGED <<loaded, obj, df, pass, validators, cleaning_report, df_is_none,
                   probe_vars, dtypes, tools_data>>

NextSave == VP_save_cleaned_data

SpecSave == InitSave /\ [][NextSave]_vars

--------------------------------------------------------------------------
(* Properties of the pipeline stages and of the report *)

\* The value of a metric of a report, 0 before any stage has written it.
Metric(report, name) == IF name \in DOMAIN report THEN report[name] ELSE 0

\* A stage call on a loaded pipeline that returned.
StageReturned(name) ==
    /\ obj = "DataCleaningPipeline"
    /\ ~df_is_none
    /\ call'.name = name
    /\ ret'.status = "returned"

\* C26: every stage call adds its count to the metric of its stage, so that
\* the metric is the total over all calls made so far: rows removed by
\* remove_duplicates and by remove_outliers, missing cells handled by
\* handle_missing_values.
C26_ReportAccumulates ==
    [][/\ StageReturned("remove_duplicates")
          => Metric(cleaning_report', "duplicates_removed")
                = Metric(cleaning_report, "duplicates_removed") + Len(df) - Len(df')
       /\ StageReturned("handle_missing_values")
          => Metric(cleaning_report', "missing_values_handled")
                = Metric(cleaning_report, "missing_values_handled")
                  + isnull_sum(df) - isnull_sum(df')
       /\ StageReturned("remove_outliers")
          => Metric(cleaning_report', "outliers_removed")
                = Metric(cleaning_report, "outliers_removed") + Len(df) - Len(df')]_vars

\* What the code does: each stage call sets the metric to its own count.
ReportKeepsLastCount ==
    [][/\ StageReturned("remove_duplicates")
          => Metric(cleaning_report', "duplicates_removed") = Len(df) - Len(df')
       /\ StageReturned("handle_missing_values")
          => Metric(cleaning_report', "missing_values_handled")
                = isnull_sum(df) - isnull_sum(df')
       /\ StageReturned("remove_outliers")
          => Metric(cleaning_report', "outliers_removed") = Len(df) - Len(df')]_vars

\* The stages that begin with the test for a loaded table.
GuardedStages ==
    {"remove_duplicates", "handle_missing_values", "remove_outliers",
     "standardize_text", "convert_data_types", "rename_columns", "remove_columns",
     "reset_index", "display_info", "save_cleaned_data"}

\* C29: on a pipeline without a loaded table every stage call returns
\* without raising and leaves df None, the cleaning report as it was and the
\* output file unwritten.
C29_UnloadedStagesDoNothing ==
    [][(/\ obj = "DataCleaningPipeline"
        /\ df_is_none
        /\ call'.name \in GuardedStages)
       => (/\ df_is_none'
           /\ df' = df
           /\ dtypes' = dtypes
           /\ cleaning_report' = cleaning_report
           /\ ret'.status = "returned"
           /\ output' = output
           /\ ~output'.exists)]_vars

\* Two stages were called on a pipeline that has no table, the second one
\* save_cleaned_data: the report is empty and no file exists.
C29_Witness ==
    /\ obj = "DataCleaningPipeline"
    /\ df_is_none
    /\ pass = 2
    /\ call.name = "save_cleaned_data"
    /\ ret.status = "returned"
    /\ cleaning_report = NoReport
    /\ output = NoOutput

\* A failed load_data leaves the pipeline without table and report.
FailedLoadLeavesUnloaded ==
    (call.name = "load_data" /\ ret.status = "raised")
        => (df_is_none /\ cleaning_report = NoReport)

\* The write of the last save_cleaned_data call failed.
WriteFailed == call.name = "save_cleaned_data" /\ output.error # "none"

\* C25: a save whose write failed does not return normally: it raises the
\* exception of the write.
C25_WriteFailureSignalled ==
    WriteFailed => (ret.status = "raised" /\ ret.exc = output.error)

\* A write failure that is no IOError leaves save_cleaned_data as raised.
OtherWriteFailureRaises ==
    (WriteFailed /\ output.error \notin IOErrors)
        => (ret.status = "raised" /\ ret.exc = output.error)

--------------------------------------------------------------------------
(* The pipeline script main.py *)

NameC == StrV(<<"C">>)

\* The launch year the scenario has the validator reject.
FarYear == IntV(3099)

\* A record named nm of company X at a.io.
ScriptRow(nm, rv, rt, yr) ==
    [c \in Columns |->
        CASE c = "Tool Name" -> nm
          [] c = "Company" -> CoX
          [] c = "Website" -> SiteA
          [] c = "review_count" -> rv
          [] c = "average_rating" -> rt
          [] c = "Launch Year" -> yr]

\* The two records of the scenario that share the identity key: hi has the
\* higher review count and the year 3099.
PairChoices ==
    {[hi |-> ScriptRow(NameA, h, rt, FarYear),
      lo |-> ScriptRow(NameA, IntV(10), FloatV(45), yr)] :
        h \in {IntV(11), IntV(20)}, rt \in {NaN, FloatV(45)},
        yr \in {IntV(2020), FarYear}}

\* The other two records of the scenario, each alone in its key group and
\* with a year inside the bounds.
SingleB == ScriptRow(NameB, IntV(1), FloatV(45), IntV(2020))
SingleC == ScriptRow(NameC, IntV(1), FloatV(45), IntV(2016))

\* The four records with hi at position i and lo at position j, B and C in
\* the two places left.
ScriptTable(pair, i, j) ==
    LET rest == CHOOSE f \in [1..2 -> (1..4) \ {i, j}] : f[1] < f[2] IN
    [k \in 1..4 |->
        IF k = i THEN pair.hi
        ELSE IF k = j THEN pair.lo
        ELSE IF k = rest[1] THEN SingleB ELSE SingleC]

\* df = load_data(path): none of the scenario's cells is "Unknown" or a 0.0
\* rating, so lines 26-34 of the script leave the table as loaded.
InitMain ==
    /\ \E pair \in PairChoices, i \in 1..4 :
          \E j \in (1..4) \ {i} :
              loaded = RangeIndex(ScriptTable(pair, i, j))
    /\ obj = "main"
    /\ df = loaded
    /\ call = NoCall
    /\ ret = NoRet
    /\ pass = 0
    /\ NoProbes
    /\ output = NoOutput
    /\ tools_data = <<>>
    /\ dtypes = <<>>
    /\ validators = NotInstalled
    /\ cleaning_report = NoReport
    /\ df_is_none = FALSE

\* cleaned_df, removed_records = DuplicateHandler(df).remove_duplicates();
\* df of the model is the script's cleaned_df, loaded is the script's df.
Main_remove_duplicates ==
    /\ obj = "main"
    /\ call = NoCall
    /\ call' = Call("remove_duplicates", "")
    /\ ret' = remove_duplicates(loaded)
    /\ df' = ret'.cleaned
    /\ UNCHANGED <<loaded, obj, pass, validators, cleaning_report, df_is_none, probe_vars, output, dtypes, tools_data>>

\* cleaned_df = MissingDataHandler(cleaned_df).handle_missing_records()
Main_handle_missing_records ==
    /\ obj = "main"
    /\ call.name = "remove_duplicates"
    /\ call' = Call("handle_missing_records", "fill")
    /\ ret' = handle_missing_records(df, FALSE)
    /\ df' = ret'.cleaned
    /\ UNCHANGED <<loaded, obj, pass, validators, cleaning_report, df_is_none, probe_vars, output, dtypes, tools_data>>

\* validator = URLValidator(df); cleaned_df, invalid_urls =
\* validator.clean_urls(): the validator is built on the script's df, the
\* table as loaded. pass counts the stages that replaced cleaned_df by a
\* table not made from it.
Main_clean_urls ==
    /\ obj = "main"
    /\ call.name = "handle_missing_records"
    /\ call' = Call("clean_urls", "")
    /\ ret' = clean_urls(validators, loaded)
    /\ df' = ret'.cleaned
    /\ pass' = pass + 1
    /\ UNCHANGED <<loaded, obj, validators, cleaning_report, df_is_none, probe_vars, output, dtypes, tools_data>>

\* cleaned_df, invalid_records =
\* YearValidator(cleaned_df).clean_years(strategy='nullify'): in the script
\* after clean_urls, in the scenario straight after remove_duplicates.
Main_clean_years ==
    /\ obj = "main"
    /\ call.name \in {"remove_duplicates", "clean_urls"}
    /\ call' = Call("clean_years", "nullify")
    /\ ret' = clean_years(df, "nullify")
    /\ df' = IF ret'.status = "returned" THEN ret'.cleaned ELSE df
    /\ UNCHANGED <<loaded, obj, pass, validators, cleaning_report, df_is_none, probe_vars, output, dtypes, tools_data>>

NextMain ==
    \/ Main_remove_duplicates
    \/ Main_handle_missing_records
    \/ Main_clean_urls
    \/ Main_clean_years

SpecMain == InitMain /\ [][NextMain]_vars

--------------------------------------------------------------------------
(* AIToolsDataCleaner of data_cleaner.py *)

\* Largest number of tools in tools_data.
MaxTools == 3
\* Largest number of deduplicate_data calls in a run.
MaxDedups == 2

\* A tool is a dict from field name to text, the text a sequence of
\* characters.
ToolFields == {"Tool Name", "Website", "Description"}

UnknownText == <<"U", "n", "k", "n", "o", "w", "n">>
SeeWebsite == <<"S", "e", "e", " ", "w", "e", "b", "s", "i", "t", "e">>

\* re.sub(r'[^\w\s]', '', text)
RECURSIVE without_special(_)
without_special(cs) ==
    IF cs = <<>> THEN <<>>
    ELSE IF cs[1] \in Letters \cup Digits \cup {"_"} \cup Whitespace
    THEN <<cs[1]>> \o without_special(Tail(cs))
    ELSE without_special(Tail(cs))

\* re.sub(r'\s+', ' ', text): every run of whitespace becomes one space.
RECURSIVE one_space(_)
one_space(cs) ==
    IF cs = <<>> THEN <<>>
    ELSE IF cs[1] \in Whitespace
    THEN IF Len(cs) > 1 /\ cs[2] \in Whitespace
         THEN one_space(Tail(cs))
         ELSE <<" ">> \o one_space(Tail(cs))
    ELSE <<cs[1]>> \o one_space(Tail(cs))

normalize_text(text) ==
    IF text = <<>> THEN <<>>
    ELSE one_space(without_special(strip(lower_str(text))))

SchemeChars == Letters \cup Digits \cup {"+", "-", "."}

\* urlsplit: what is left of url after its scheme and the colon.
after_scheme(url) ==
    LET colons == {i \in DOMAIN url : url[i] = ":"} IN
    IF colons = {} THEN url
    ELSE LET i == CHOOSE c \in colons : \A d \in colons : c <= d IN
         IF i > 1 /\ url[1] \in Letters /\ \A j \in 1..(i - 1) : url[j] \in SchemeChars
         THEN SubSeq(url, i + 1, Len(url))
         ELSE url

\* urlsplit: the netloc runs from behind '//' to the first of '/', '?', '#'.
netloc(rest) ==
    IF ~startswith(rest, <<"/", "/">>) THEN <<>>
    ELSE LET stops == {i \in 3..Len(rest) : rest[i] \in {"/", "?", "#"}} IN
         IF stops = {} THEN SubSeq(rest, 3, Len(rest))
         ELSE SubSeq(rest, 3, (CHOOSE i \in stops : \A j \in stops : i <= j) - 1)

\* urlparse(url).netloc.lower()
extract_domain(url) == lower_str(netloc(after_scheme(url)))

\* The last test of are_similar_tools on the two domains.
same_domain(domain1, domain2) ==
    domain1 # <<>> /\ domain2 # <<>> /\ domain1 = domain2

\* The first two tests of are_similar_tools on the two normalized names.
similar_names(name1_norm, name2_norm) ==
    \/ name1_norm = name2_norm
    \/ contains(name2_norm, name1_norm)
    \/ contains(name1_norm, name2_norm)

are_similar_tools(tool1, tool2) ==
    \/ similar_names(normalize_text(tool1["Tool Name"]),
                     normalize_text(tool2["Tool Name"]))
    \/ same_domain(extract_domain(tool1["Website"]),
                   extract_domain(tool2["Website"]))

\* sum(1 for v in t.values() if v and v != "Unknown")
filled(tool) ==
    Cardinality({f \in DOMAIN tool : tool[f] # <<>> /\ tool[f] # UnknownText})

\* max(tools, key=...): the position of the first tool of the largest count.
best_of(tools) ==
    CHOOSE p \in DOMAIN tools :
        /\ \A q \in DOMAIN tools : filled(tools[q]) <= filled(tools[p])
        /\ \A q \in DOMAIN tools : filled(tools[q]) = filled(tools[p]) => p <= q

\* The value of best_tool[field] after the branches of the inner loop.
merge_field(field, best, value) ==
    IF best = <<>> \/ best = UnknownText THEN value
    ELSE IF field = "Description" /\ Len(value) > Len(best) THEN value
    ELSE IF field = "Key Features" /\ value # SeeWebsite
    THEN IF best = SeeWebsite THEN value ELSE best \o <<",", " ">> \o value
    ELSE best

\* One round of the outer loop: a tool equal to best_tool is skipped.
merge_into(best_tool, tool) ==
    IF tool = best_tool THEN best_tool
    ELSE [f \in DOMAIN best_tool |-> merge_field(f, best_tool[f], tool[f])]

RECURSIVE merge_from(_, _, _)
merge_from(best_tool, tools, k) ==
    IF k > Len(tools) THEN best_tool
    ELSE merge_from(merge_into(best_tool, tools[k]), tools, k + 1)

\* merge_tools(tools) for a group that is not empty.
merge_tools(tools) == merge_from(tools[best_of(tools)], tools, 1)

\* The positions behind i not yet in a group whose tool is similar to the
\* tool at i.
similar_behind(tools, i, processed) ==
    {j \in (i + 1)..Len(tools) :
        j \notin processed /\ are_similar_tools(tools[i], tools[j])}

\* The outer loop of deduplicate_data from position i on: the groups, each
\* the set of positions of its tools.
RECURSIVE tool_groups(_, _, _)
tool_groups(tools, i, processed) ==
    IF i > Len(tools) THEN <<>>
    ELSE IF i \in processed THEN tool_groups(tools, i + 1, processed)
    ELSE <<{i} \cup similar_behind(tools, i, processed)>>
         \o tool_groups(tools, i + 1,
                processed \cup {i} \cup similar_behind(tools, i, processed))

\* merged_tools: merge_tools of every group, its tools in list order.
merged_tools(tools, groups) ==
    MapRows(groups, LAMBDA k, group : merge_tools(Mask(tools, group)))

\* The list deduplicate_data stores in self.tools_data.
deduplicate_data(tools) == merged_tools(tools, tool_groups(tools, 1, {}))

--------------------------------------------------------------------------
(* Inputs of the cleaner runs *)

\* Tools as clean_data leaves them: a title-cased name that is not empty, a
\* website that is empty or starts with 'http', a stripped description.
ToolNames == {<<"A">>, <<"B">>, <<"A", " ", "B">>}
ToolSites ==
    {<<>>, <<"h", "t", "t", "p", ":", "/", "/", "x">>,
     <<"h", "t", "t", "p", ":", "/", "/", "X", "/", "p">>}
ToolTexts == {<<>>, <<"d">>}

Tools ==
    {[f \in ToolFields |->
        CASE f = "Tool Name" -> nm
          [] f = "Website" -> site
          [] f = "Description" -> text] :
        nm \in ToolNames, site \in ToolSites, text \in ToolTexts}

\* cleaner = AIToolsDataCleaner() after load_data_from_files() and
\* clean_data().
InitCleaner ==
    /\ tools_data \in SeqsUpTo(Tools, MaxTools)
    /\ loaded = tools_data
    /\ obj = "AIToolsDataCleaner"
    /\ df = <<>>
    /\ call = NoCall
    /\ ret = NoRet
    /\ pass = 0
    /\ NoProbes
    /\ output = NoOutput
    /\ dtypes = <<>>
    /\ validators = NotInstalled
    /\ cleaning_report = NoReport
    /\ df_is_none = FALSE

\* cleaner.deduplicate_data(); pass counts the calls.
AC_deduplicate_data ==
    /\ obj = "AIToolsDataCleaner"
    /\ pass < MaxDedups
    /\ pass' = pass + 1
    /\ call' = Call("deduplicate_data", "")
    /\ ret' = [status |-> "returned"]
    /\ tools_data' = deduplicate_data(tools_data)
    /\ UNCHANGED <<loaded, obj, df, validators, cleaning_report, df_is_none, probe_vars, output, dtypes>>

NextCleaner == AC_deduplicate_data

SpecCleaner == InitCleaner /\ [][NextCleaner]_vars

--------------------------------------------------------------------------
(* Properties of deduplicate_data *)

\* Two tools of the list are similar.
SimilarPair(tools) ==
    \E i, j \in DOMAIN tools : i < j /\ are_similar_tools(tools[i], tools[j])

\* C30: after deduplicate_data returns no two tools of tools_data are
\* similar, and a further call leaves the number of tools as it is.
C30_OnePassFixedPoint ==
    [][(obj = "AIToolsDataCleaner" /\ call'.name = "deduplicate_data")
          => (/\ ~SimilarPair(tools_data')
              /\ call.name = "deduplicate_data"
                    => Len(tools_data') = Len(tools_data))]_vars

\* deduplicate_data never adds a tool.
NeverMoreTools ==
    [][(obj = "AIToolsDataCleaner" /\ call'.name = "deduplicate_data")
          => Len(tools_data') <= Len(tools_data)]_vars

\* When no two tools are similar deduplicate_data changes nothing.
DissimilarToolsKept ==
    [][(obj = "AIToolsDataCleaner" /\ call'.name = "deduplicate_data"
           /\ ~SimilarPair(tools_data))
          => tools_data' = tools_data]_vars

--------------------------------------------------------------------------
(* Properties of the end-to-end scenario *)

\* The positions of t whose record has the identity key of the pair.
PairAt(t) == {i \in DOMAIN t : t[i].rec["Tool Name"] = NameA}

\* The higher of the review counts of the pair in the loaded table.
HigherReviews ==
    LET counts == {loaded[i].rec["review_count"].n : i \in PairAt(loaded)}
    IN CHOOSE n \in counts : \A m \in counts : m <= n

\* t holds one record of the pair, the one with the higher review count.
KeepsHigherReview(t) ==
    /\ Cardinality(PairAt(t)) = 1
    /\ \A i \in PairAt(t) : t[i].rec["review_count"].n = HigherReviews

\* The positions of t whose year is missing.
NullYears(t) == {i \in DOMAIN t : isna(t[i].rec[year_column])}

\* C27: in the scenario remove_duplicates keeps the higher-review record of
\* the pair, and clean_years('nullify') on its result returns 3 records of
\* which exactly one, the survivor, has its year set to missing.
C27_EndToEnd ==
    /\ (obj = "main" /\ call.name = "remove_duplicates")
          => (Len(df) = 3 /\ KeepsHigherReview(df))
    /\ (obj = "main" /\ call.name = "clean_years" /\ pass = 0)
          => (/\ ret.status = "returned"
              /\ Len(ret.cleaned) = 3
              /\ KeepsHigherReview(ret.cleaned)
              /\ NullYears(ret.cleaned) = PairAt(ret.cleaned))

\* Whichever record of the pair survived, three records are left and the
\* missing years are those of the survivors that had the year 3099.
ThreeLeftFarYearsNullified ==
    (obj = "main" /\ call.name = "clean_years" /\ pass = 0)
        => (/\ ret.status = "returned"
            /\ Len(ret.cleaned) = 3
            /\ Cardinality(PairAt(ret.cleaned)) = 1
            /\ Cardinality(NullYears(ret.cleaned)) = Len(ret.rejected))

\* The script's year stage works on the table clean_urls made from the
\* loaded table: the duplicate removed before is back.
ScriptYearStageSeesLoaded ==
    (obj = "main" /\ call.name = "clean_years" /\ pass = 1)
        => (ret.status = "returned" /\ Len(ret.cleaned) = Len(loaded))

====
